---------------------------- MODULE Spec2Model ----------------------------
(***************************************************************************)
(* The Critical Path Method engine of zad3 (TaskNetwork.py) driven the way *)
(* zad3/main.py drives it: load the task file (add_task per line), build   *)
(* the AN or the AA network, forward pass, backward pass, critical path,   *)
(* machine schedule.                                                       *)
(*                                                                         *)
(* A Python dict is a sequence of <<key, value>> pairs in insertion order; *)
(* a Python list is a sequence.  An exception is the field err of the      *)
(* object record: an operation that raises stops where the code stops and  *)
(* keeps every assignment made before the raise.                           *)
(***************************************************************************)
EXTENDS Integers, Sequences, FiniteSets, TLC

VARIABLES
    tasks,          \* TaskNetwork.tasks: dict task_id -> Task, as the sequence of its Task values
    num_machines,   \* TaskNetwork.num_machines
    network_type,   \* TaskNetwork.network_type: "None", "AN" or "AA"
    graph,          \* TaskNetwork.graph: dict node -> list of successors
    makespan,       \* TaskNetwork.makespan
    dummy_tasks,    \* TaskNetwork.dummy_tasks
    arc_to_task,    \* TaskNetwork.arc_to_task: dict (u, v) -> task id
    pc,             \* the position of main(): which call comes next
    err,            \* the exception that ended the last call ("none": it returned)
    critical_path,  \* what find_critical_path returned
    schedule,       \* what create_schedule returned
    loop,           \* the local variables of a propagation pass that is under way
    popped,         \* the ids popleft() has returned in the pass, in order
    zad5_graph,     \* zad5: the Graph object (num_vertices, directed, adj_matrix)
    zad5_pc,        \* zad5: the position of main()
    prim_result,    \* zad5: what prim_mst returned: mst_edges, total_weight
    kruskal_result, \* zad5: what kruskal_mst returned: mst_edges, total_weight
    zad4_graph,     \* zad4: the Graph object (num_vertices, directed, adj_matrix)
    zad4_pc,        \* zad4: the position of the caller
    c3_result,      \* zad4: what the C_3 methods returned
    zad2_network,   \* zad2: the FlowNetwork object (n, capacity, flow)
    zad2_pc,        \* zad2: the position of main() and of edmonds_karp
    zad2_ends,      \* zad2: the arguments (source, sink) of edmonds_karp
    zad2_result,    \* zad2: the local "result" of edmonds_karp: labels and bottleneck
    zad2_path,      \* zad2: the local "path" of edmonds_karp
    max_flow,       \* zad2: the local "max_flow" of edmonds_karp, which it returns
    zad1_graph      \* zad1: the Graph object (n, matrix, directed)

vars == <<tasks, num_machines, network_type, graph, makespan, dummy_tasks,
          arc_to_task, pc, err, critical_path, schedule, loop, popped,
          zad5_graph, zad5_pc, prim_result, kruskal_result,
          zad4_graph, zad4_pc, c3_result,
          zad2_network, zad2_pc, zad2_ends, zad2_result, zad2_path, max_flow,
          zad1_graph>>

\* the variables of the task scheduling program (zad3)
zad3vars == <<tasks, num_machines, network_type, graph, makespan, dummy_tasks,
              arc_to_task, pc, err, critical_path, schedule, loop, popped>>

\* the variables of the spanning tree program (zad5)
zad5vars == <<zad5_graph, zad5_pc, prim_result, kruskal_result>>

\* the variables of the C_3 program (zad4)
zad4vars == <<zad4_graph, zad4_pc, c3_result>>

\* the variables of the maximum flow program (zad2)
zad2vars == <<zad2_network, zad2_pc, zad2_ends, zad2_result, zad2_path, max_flow>>

\* the variables of the adjacency matrix program (zad1)
zad1vars == <<zad1_graph>>

\* the variables of the programs other than the one named
besides_zad3 == <<zad5vars, zad4vars, zad2vars, zad1vars>>
besides_zad5 == <<zad3vars, zad4vars, zad2vars, zad1vars>>
besides_zad4 == <<zad3vars, zad5vars, zad2vars, zad1vars>>
besides_zad2 == <<zad3vars, zad5vars, zad4vars, zad1vars>>
besides_zad1 == <<zad3vars, zad5vars, zad4vars, zad2vars>>

-----------------------------------------------------------------------------
(* Bounds of the inputs. *)

\* the ids the lines of the task file name, in file order
TaskIds == <<"A", "B", "C">>

\* the ids of a registry that is filled in any order, with ids repeated
FewIds == <<"A", "B">>

\* the task file of the worked example: id, duration, predecessors
ExampleTasks ==
    << <<"A", 3, <<>> >>, <<"B", 2, <<"A">> >>, <<"C", 4, <<"A">> >>,
       <<"D", 1, <<"B", "C">> >> >>

\* durations range over 0..MaxDur
MaxDur == 1

\* at most MaxPreds predecessors on one line
MaxPreds == 2

\* the first line of the file is a machine count in 1..MaxMachines
MaxMachines == 2

\* zad5: a graph has at most MaxVertices vertices
MaxVertices == 4

\* zad5: the edge weights are the non-zero integers of -1..MaxWeight
MaxWeight == 2

Weights == (-1..MaxWeight) \ {0}

\* zad4: a graph has at most MaxC3Vertices vertices
MaxC3Vertices == 3

\* zad1: add_node is called on graphs of fewer than MaxNodes nodes
MaxNodes == 3

\* zad2: a flow network has at most MaxFlowNodes nodes
MaxFlowNodes == 3

\* zad2: the capacities of the file are in 0..MaxCapacity
MaxCapacity == 2

\* zad2: a file of six nodes on which a shortest augmenting path takes back
\* flow sent before: its lines u v, each with the same capacity
LadderArcs == {<<0, 1>>, <<0, 2>>, <<1, 3>>, <<1, 4>>, <<2, 3>>, <<3, 5>>, <<4, 5>>}

\* float('inf'): above every capacity and every sum of capacities
float_inf == 1000000

\* None as the parent in the label of the source
None == -1

\* sys.float_info.max: above every weight
float_info_max == 1000000

-----------------------------------------------------------------------------
(* Python built-ins. *)

Range(s) == {s[i] : i \in 1..Len(s)}

Has(d, k) == \E i \in 1..Len(d) : d[i][1] = k

KeyIndex(d, k) == CHOOSE i \in 1..Len(d) : d[i][1] = k

Get(d, k) == d[KeyIndex(d, k)][2]

GetOr(d, k, default) == IF Has(d, k) THEN Get(d, k) ELSE default

Put(d, k, v) ==
    IF Has(d, k) THEN [d EXCEPT ![KeyIndex(d, k)] = <<k, v>>]
    ELSE Append(d, <<k, v>>)

Max2(a, b) == IF a >= b THEN a ELSE b

Min2(a, b) == IF a <= b THEN a ELSE b

MaxOf(S) == CHOOSE x \in S : \A y \in S : y <= x

MinOf(S) == CHOOSE x \in S : \A y \in S : x <= y

\* every task id of the model, in lexicographic order
IdOrder == <<"A", "B", "C", "D">>

\* str < str on task ids
StrLess(a, b) ==
    \E i, j \in 1..Len(IdOrder) : IdOrder[i] = a /\ IdOrder[j] = b /\ i < j

-----------------------------------------------------------------------------
(* class Task *)

Task(task_id, duration, predecessors) ==
    [task_id |-> task_id, duration |-> duration, predecessors |-> predecessors,
     earliest_start |-> 0, earliest_finish |-> 0,
     latest_start |-> 0, latest_finish |-> 0, slack |-> 0]

\* slack taken against the earliest finish
calculate_slack_from_earliest_finish(t) ==
    [t EXCEPT !.slack = t.latest_start - t.earliest_finish]

\* slack taken from the latest finish
calculate_slack_from_finish(t) == [t EXCEPT !.slack = t.latest_finish - t.earliest_start]

calculate_slack(t) == [t EXCEPT !.slack = t.latest_start - t.earliest_start]

is_critical(t) == t.slack = 0

\* self.tasks[task_id] and "task_id in self.tasks"
HasTask(ts, id) == \E i \in 1..Len(ts) : ts[i].task_id = id

TaskIndex(ts, id) == CHOOSE i \in 1..Len(ts) : ts[i].task_id = id

TaskOf(ts, id) == ts[TaskIndex(ts, id)]

-----------------------------------------------------------------------------
(* class TaskNetwork: the object as a record, the methods as operators on it *)

NewTaskNetwork ==
    [tasks |-> <<>>, num_machines |-> 0, network_type |-> "None", graph |-> <<>>,
     makespan |-> 0, dummy_tasks |-> <<>>, arc_to_task |-> <<>>, err |-> "none"]

add_task(self, task_id, duration, predecessors) ==
    LET task == Task(task_id, duration, predecessors)
    IN  [self EXCEPT !.tasks =
            IF HasTask(self.tasks, task_id)
            THEN [self.tasks EXCEPT ![TaskIndex(self.tasks, task_id)] = task]
            ELSE Append(self.tasks, task)]

\* the (pred_id, task_id) pairs in the order of
\* "for task_id, task in self.tasks.items(): for pred_id in task.predecessors"
RECURSIVE PredPairs(_, _)
PredPairs(ts, i) ==
    IF i > Len(ts) THEN <<>>
    ELSE [j \in 1..Len(ts[i].predecessors) |->
              <<ts[i].predecessors[j], ts[i].task_id>>] \o PredPairs(ts, i + 1)

RECURSIVE AN_add_edges(_, _, _)
AN_add_edges(g, pairs, k) ==
    IF k > Len(pairs) THEN g
    ELSE LET pred_id == pairs[k][1]
             task_id == pairs[k][2]
             g2 == IF Has(g, pred_id)
                   THEN Put(g, pred_id, Append(Get(g, pred_id), task_id))
                   ELSE Put(g, pred_id, <<task_id>>)
         IN  AN_add_edges(g2, pairs, k + 1)

build_AN_network(self) ==
    LET g0 == [i \in 1..Len(self.tasks) |-> <<self.tasks[i].task_id, <<>> >>]
    IN  [self EXCEPT !.network_type = "AN",
                     !.graph = AN_add_edges(g0, PredPairs(self.tasks, 1), 1)]

-----------------------------------------------------------------------------
(* build_AA_network *)

NodeName(k) == "N" \o ToString(k)

has_successors(ts, task_id) ==
    \E i \in 1..Len(ts) : task_id \in Range(ts[i].predecessors)

\* lines 74-92: a start and an end event for every task
RECURSIVE AA_assign_nodes(_, _, _)
AA_assign_nodes(ts, i, st) ==
    IF i > Len(ts) THEN st
    ELSE LET t == ts[i]
             s1 == IF Len(t.predecessors) = 0
                   THEN [st EXCEPT !.task_start_nodes = Put(@, t.task_id, "START")]
                   ELSE [st EXCEPT !.node_counter = @ + 1,
                                   !.task_start_nodes =
                                       Put(@, t.task_id, NodeName(st.node_counter))]
             s2 == IF ~has_successors(ts, t.task_id)
                   THEN [s1 EXCEPT !.task_end_nodes = Put(@, t.task_id, "END")]
                   ELSE [s1 EXCEPT !.node_counter = @ + 1,
                                   !.task_end_nodes =
                                       Put(@, t.task_id, NodeName(s1.node_counter))]
         IN  AA_assign_nodes(ts, i + 1, s2)

\* "for node in nodes" over the set nodes = {START, END, N0, ...}: the order a set
\* of str iterates in is not fixed (str hashes are salted per process); the two
\* orders modelled are the allocation order and its reverse
NodeOrder(node_counter, reversed) ==
    LET asc == <<"START", "END">> \o [k \in 1..node_counter |-> NodeName(k - 1)]
    IN  IF reversed THEN [k \in 1..Len(asc) |-> asc[Len(asc) + 1 - k]] ELSE asc

\* lines 97-102: one arc per task
RECURSIVE AA_add_task_arcs(_, _, _, _)
AA_add_task_arcs(self, ts, i, st) ==
    IF i > Len(ts) THEN self
    ELSE LET task_id == ts[i].task_id
             start_node == Get(st.task_start_nodes, task_id)
             end_node == Get(st.task_end_nodes, task_id)
             s2 == [self EXCEPT
                      !.graph = Put(@, start_node, Append(Get(@, start_node), end_node)),
                      !.arc_to_task = Put(@, <<start_node, end_node>>, task_id)]
         IN  AA_add_task_arcs(s2, ts, i + 1, st)

\* a build that adds a dummy arc for every predecessor named, without looking
\* whether the two events are joined already
RECURSIVE AA_add_dummy_arcs_unchecked(_, _, _, _)
AA_add_dummy_arcs_unchecked(self, pairs, k, st) ==
    IF k > Len(pairs) THEN self
    ELSE LET pred_id == pairs[k][1]
             task_id == pairs[k][2]
         IN  IF ~Has(st.task_end_nodes, pred_id)
             THEN [self EXCEPT !.err = "KeyError"]
             ELSE LET pred_end == Get(st.task_end_nodes, pred_id)
                      task_start == Get(st.task_start_nodes, task_id)
                      dummy_id == "DUMMY_" \o pred_end \o "_" \o task_start
                      s2 == IF pred_end # task_start
                            THEN [self EXCEPT
                                    !.graph = Put(@, pred_end,
                                                  Append(Get(@, pred_end), task_start)),
                                    !.arc_to_task =
                                        Put(@, <<pred_end, task_start>>, dummy_id),
                                    !.dummy_tasks = Append(@, dummy_id)]
                            ELSE self
                  IN  AA_add_dummy_arcs_unchecked(s2, pairs, k + 1, st)

\* lines 104-116: the dummy arcs; task_end_nodes[pred_id] raises KeyError
RECURSIVE AA_add_dummy_arcs(_, _, _, _)
AA_add_dummy_arcs(self, pairs, k, st) ==
    IF k > Len(pairs) THEN self
    ELSE LET pred_id == pairs[k][1]
             task_id == pairs[k][2]
         IN  IF ~Has(st.task_end_nodes, pred_id)
             THEN [self EXCEPT !.err = "KeyError"]
             ELSE LET pred_end == Get(st.task_end_nodes, pred_id)
                      task_start == Get(st.task_start_nodes, task_id)
                      dummy_id == "DUMMY_" \o pred_end \o "_" \o task_start
                      s2 == IF pred_end # task_start
                               /\ task_start \notin Range(Get(self.graph, pred_end))
                            THEN [self EXCEPT
                                    !.graph = Put(@, pred_end,
                                                  Append(Get(@, pred_end), task_start)),
                                    !.arc_to_task =
                                        Put(@, <<pred_end, task_start>>, dummy_id),
                                    !.dummy_tasks = Append(@, dummy_id)]
                            ELSE self
                  IN  AA_add_dummy_arcs(s2, pairs, k + 1, st)

build_AA_network(self, reversed) ==
    LET st == AA_assign_nodes(self.tasks, 1,
                  [node_counter |-> 0, task_start_nodes |-> <<>>,
                   task_end_nodes |-> <<>>])
        order == NodeOrder(st.node_counter, reversed)
        s0 == [self EXCEPT !.network_type = "AA",
                           !.graph = [k \in 1..Len(order) |-> <<order[k], <<>> >>],
                           !.arc_to_task = <<>>,
                           !.dummy_tasks = <<>>]
        s1 == AA_add_task_arcs(s0, self.tasks, 1, st)
    IN  AA_add_dummy_arcs(s1, PredPairs(self.tasks, 1), 1, st)

-----------------------------------------------------------------------------
(* The propagation passes.  A pass under way is a frame [self, lp]: the     *)
(* object and the locals of the pass (lp.queue is the deque).               *)

NoLoop == [kind |-> "none"]

Raise(fr, exc) == [fr EXCEPT !.self.err = exc]

NewLoop(kind, degree, queue, event_times) ==
    [kind |-> kind, in_degree |-> degree, out_degree |-> degree, queue |-> queue,
     event_times |-> event_times]

\* queue.popleft()
Popleft(lp) == [lp EXCEPT !.queue = Tail(@)]

\* the ids of ts that satisfy Test, in the order of ts (a list comprehension)
IdsWhere(ts, Test(_)) ==
    LET sel == SelectSeq(ts, Test) IN [i \in 1..Len(sel) |-> sel[i].task_id]

\* the (node, successor) pairs in the order of
\* "for node in self.graph: for successor in self.graph[node]"
RECURSIVE GraphArcs(_, _)
GraphArcs(g, i) ==
    IF i > Len(g) THEN <<>>
    ELSE [j \in 1..Len(g[i][2]) |-> <<g[i][1], g[i][2][j]>>] \o GraphArcs(g, i + 1)

(* _calculate_earliest_times_AN *)

\* lines 126-127
earliest_AN_begin(self) ==
    LET NoPred(t) == Len(t.predecessors) = 0
    IN  [self |-> self,
         lp |-> NewLoop("earliest_AN",
                    [i \in 1..Len(self.tasks) |->
                        <<self.tasks[i].task_id, Len(self.tasks[i].predecessors)>>],
                    IdsWhere(self.tasks, NoPred), <<>>)]

\* lines 144-147 without the test of line 146: a successor is queued at each release
RECURSIVE earliest_AN_successors_always_queued(_, _, _)
earliest_AN_successors_always_queued(fr, succs, k) ==
    IF k > Len(succs) THEN fr
    ELSE LET successor_id == succs[k]
         IN  IF ~Has(fr.lp.in_degree, successor_id) THEN Raise(fr, "KeyError")
             ELSE LET d == Get(fr.lp.in_degree, successor_id) - 1
                      fr2 == [fr EXCEPT
                                !.lp.in_degree = Put(@, successor_id, d),
                                !.lp.queue = Append(@, successor_id)]
                  IN  earliest_AN_successors_always_queued(fr2, succs, k + 1)

\* lines 144-147
RECURSIVE earliest_AN_successors(_, _, _)
earliest_AN_successors(fr, succs, k) ==
    IF k > Len(succs) THEN fr
    ELSE LET successor_id == succs[k]
         IN  IF ~Has(fr.lp.in_degree, successor_id) THEN Raise(fr, "KeyError")
             ELSE LET d == Get(fr.lp.in_degree, successor_id) - 1
                      fr2 == [fr EXCEPT
                                !.lp.in_degree = Put(@, successor_id, d),
                                !.lp.queue = IF d = 0 THEN Append(@, successor_id) ELSE @]
                  IN  earliest_AN_successors(fr2, succs, k + 1)

\* lines 130-147: one turn of the while loop
earliest_AN_step(fr) ==
    LET current_id == Head(fr.lp.queue)
        fr1 == [fr EXCEPT !.lp = Popleft(@)]
        ts == fr.self.tasks
    IN  IF ~HasTask(ts, current_id) THEN Raise(fr1, "KeyError")
        ELSE LET i == TaskIndex(ts, current_id)
                 preds == ts[i].predecessors
             IN  IF \E p \in Range(preds) : ~HasTask(ts, p) THEN Raise(fr1, "KeyError")
                 ELSE LET es == IF Len(preds) > 0
                                THEN MaxOf({TaskOf(ts, p).earliest_finish : p \in Range(preds)})
                                ELSE 0
                          fr2 == [fr1 EXCEPT
                                    !.self.tasks[i].earliest_start = es,
                                    !.self.tasks[i].earliest_finish = es + ts[i].duration]
                      IN  earliest_AN_successors(fr2,
                              GetOr(fr.self.graph, current_id, <<>>), 1)

\* line 150 with += for =: the makespan adds up over the runs
earliest_AN_end_accumulating(fr) ==
    IF fr.self.err # "none" THEN fr
    ELSE IF Len(fr.self.tasks) = 0 THEN Raise(fr, "ValueError")
    ELSE [fr EXCEPT !.self.makespan = @ +
             MaxOf({fr.self.tasks[i].earliest_finish : i \in 1..Len(fr.self.tasks)})]

\* line 150; max() of no task raises ValueError
earliest_AN_end(fr) ==
    IF fr.self.err # "none" THEN fr
    ELSE IF Len(fr.self.tasks) = 0 THEN Raise(fr, "ValueError")
    ELSE [fr EXCEPT !.self.makespan =
             MaxOf({fr.self.tasks[i].earliest_finish : i \in 1..Len(fr.self.tasks)})]

(* _calculate_earliest_times_AA *)

\* lines 157-160
RECURSIVE AA_count_in_degree(_, _, _)
AA_count_in_degree(deg, arcs, k) ==
    IF k > Len(arcs) THEN deg
    ELSE AA_count_in_degree(Put(deg, arcs[k][2], GetOr(deg, arcs[k][2], 0) + 1),
                            arcs, k + 1)

\* lines 154-162
earliest_AA_begin(self) ==
    LET g == self.graph
        in_degree == AA_count_in_degree([i \in 1..Len(g) |-> <<g[i][1], 0>>],
                                        GraphArcs(g, 1), 1)
        Zero(n) == Get(in_degree, n) = 0
        nodes == [i \in 1..Len(g) |-> g[i][1]]
    IN  [self |-> self,
         lp |-> NewLoop("earliest_AA", in_degree, SelectSeq(nodes, Zero),
                        << <<"START", 0>> >>)]

\* lines 170-175 and 260-265: the duration of an arc; "task_id and ..." also
\* takes None (no such arc) for a dummy arc
IsTaskArc(self, arc) ==
    /\ Has(self.arc_to_task, arc)
    /\ Get(self.arc_to_task, arc) \notin Range(self.dummy_tasks)

\* lines 167-183
RECURSIVE earliest_AA_successors(_, _, _, _)
earliest_AA_successors(fr, current_node, succs, k) ==
    IF k > Len(succs) THEN fr
    ELSE LET successor_node == succs[k]
             arc == <<current_node, successor_node>>
         IN  IF IsTaskArc(fr.self, arc)
                /\ ~HasTask(fr.self.tasks, Get(fr.self.arc_to_task, arc))
             THEN Raise(fr, "KeyError")
             ELSE IF ~Has(fr.lp.event_times, current_node) THEN Raise(fr, "KeyError")
             ELSE LET duration ==
                          IF IsTaskArc(fr.self, arc)
                          THEN TaskOf(fr.self.tasks, Get(fr.self.arc_to_task, arc)).duration
                          ELSE 0
                      new_time == Get(fr.lp.event_times, current_node) + duration
                      fr2 == [fr EXCEPT !.lp.event_times =
                                 Put(@, successor_node,
                                     Max2(GetOr(@, successor_node, 0), new_time))]
                  IN  IF ~Has(fr.lp.in_degree, successor_node) THEN Raise(fr2, "KeyError")
                      ELSE LET d == Get(fr.lp.in_degree, successor_node) - 1
                               fr3 == [fr2 EXCEPT
                                         !.lp.in_degree = Put(@, successor_node, d),
                                         !.lp.queue = IF d = 0 THEN Append(@, successor_node)
                                                      ELSE @]
                           IN  earliest_AA_successors(fr3, current_node, succs, k + 1)

\* lines 165-183: one turn of the while loop
earliest_AA_step(fr) ==
    LET current_node == Head(fr.lp.queue)
        fr1 == [fr EXCEPT !.lp = Popleft(@)]
    IN  IF ~Has(fr.self.graph, current_node) THEN Raise(fr1, "KeyError")
        ELSE earliest_AA_successors(fr1, current_node,
                                    Get(fr.self.graph, current_node), 1)

\* lines 186-190
RECURSIVE earliest_AA_assign(_, _)
earliest_AA_assign(fr, k) ==
    IF k > Len(fr.self.arc_to_task) THEN fr
    ELSE LET start_node == fr.self.arc_to_task[k][1][1]
             end_node == fr.self.arc_to_task[k][1][2]
             task_id == fr.self.arc_to_task[k][2]
         IN  IF task_id \in Range(fr.self.dummy_tasks) THEN earliest_AA_assign(fr, k + 1)
             ELSE IF ~HasTask(fr.self.tasks, task_id) THEN Raise(fr, "KeyError")
             ELSE LET i == TaskIndex(fr.self.tasks, task_id)
                  IN  IF ~Has(fr.lp.event_times, start_node) THEN Raise(fr, "KeyError")
                      ELSE LET fr2 == [fr EXCEPT !.self.tasks[i].earliest_start =
                                          Get(fr.lp.event_times, start_node)]
                           IN  IF ~Has(fr.lp.event_times, end_node)
                               THEN Raise(fr2, "KeyError")
                               ELSE earliest_AA_assign(
                                        [fr2 EXCEPT !.self.tasks[i].earliest_finish =
                                            Get(fr.lp.event_times, end_node)], k + 1)

\* lines 185-192
earliest_AA_end(fr) ==
    IF fr.self.err # "none" THEN fr
    ELSE LET fr2 == earliest_AA_assign(fr, 1)
         IN  IF fr2.self.err # "none" THEN fr2
             ELSE [fr2 EXCEPT !.self.makespan = GetOr(fr.lp.event_times, "END", 0)]

(* _calculate_latest_times_AN *)

\* lines 210-213; reverse_graph[succ_id] raises KeyError for a successor that is no task
RECURSIVE AN_reverse_graph(_, _, _)
AN_reverse_graph(rg, arcs, k) ==
    IF k > Len(arcs) THEN rg
    ELSE AN_reverse_graph(Put(rg, arcs[k][2], Append(Get(rg, arcs[k][2]), arcs[k][1])),
                          arcs, k + 1)

reverse_graph_AN(self) ==
    AN_reverse_graph([i \in 1..Len(self.tasks) |-> <<self.tasks[i].task_id, <<>> >>],
                     GraphArcs(self.graph, 1), 1)

\* lines 206-217
latest_AN_begin(self) ==
    LET out_degree == [i \in 1..Len(self.graph) |->
                          <<self.graph[i][1], Len(self.graph[i][2])>>]
        Sink(t) == GetOr(out_degree, t.task_id, 0) = 0
        s1 == [self EXCEPT !.tasks =
                  [i \in 1..Len(self.tasks) |->
                      [self.tasks[i] EXCEPT !.latest_finish = self.makespan]]]
    IN  IF \E k \in 1..Len(self.graph) :
              \E j \in 1..Len(self.graph[k][2]) : ~HasTask(self.tasks, self.graph[k][2][j])
        THEN [self |-> [s1 EXCEPT !.err = "KeyError"], lp |-> NoLoop]
        ELSE [self |-> s1,
              lp |-> NewLoop("latest_AN", out_degree, IdsWhere(self.tasks, Sink), <<>>)]

\* lines 235-238
RECURSIVE latest_AN_predecessors(_, _, _)
latest_AN_predecessors(fr, preds, k) ==
    IF k > Len(preds) THEN fr
    ELSE LET pred_id == preds[k]
         IN  IF ~Has(fr.lp.out_degree, pred_id) THEN Raise(fr, "KeyError")
             ELSE LET d == Get(fr.lp.out_degree, pred_id) - 1
                      fr2 == [fr EXCEPT
                                !.lp.out_degree = Put(@, pred_id, d),
                                !.lp.queue = IF d = 0 THEN Append(@, pred_id) ELSE @]
                  IN  latest_AN_predecessors(fr2, preds, k + 1)

\* lines 220-238: one turn of the while loop; self.tasks[current_id] raises
\* KeyError for a graph node that is no task
latest_AN_step(fr) ==
    LET current_id == Head(fr.lp.queue)
        fr1 == [fr EXCEPT !.lp = Popleft(@)]
        ts == fr.self.tasks
    IN  IF ~HasTask(ts, current_id) THEN Raise(fr1, "KeyError")
        ELSE LET i == TaskIndex(ts, current_id)
                 successors == GetOr(fr.self.graph, current_id, <<>>)
             IN  IF \E s \in Range(successors) : ~HasTask(ts, s)
                 THEN Raise(fr1, "KeyError")
                 ELSE LET lf == IF Len(successors) > 0
                                THEN MinOf({TaskOf(ts, s).latest_start :
                                               s \in Range(successors)})
                                ELSE fr.self.makespan
                          fr2 == [fr1 EXCEPT
                                    !.self.tasks[i].latest_finish = lf,
                                    !.self.tasks[i].latest_start = lf - ts[i].duration]
                      IN  latest_AN_predecessors(fr2,
                              GetOr(reverse_graph_AN(fr.self), current_id, <<>>), 1)

(* _calculate_latest_times_AA *)

\* lines 245-248
RECURSIVE AA_reverse_graph(_, _, _)
AA_reverse_graph(rg, arcs, k) ==
    IF k > Len(arcs) THEN rg
    ELSE AA_reverse_graph(Put(rg, arcs[k][2], Append(Get(rg, arcs[k][2]), arcs[k][1])),
                          arcs, k + 1)

reverse_graph_AA(self) ==
    AA_reverse_graph([i \in 1..Len(self.graph) |-> <<self.graph[i][1], <<>> >>],
                     GraphArcs(self.graph, 1), 1)

\* lines 242-252
latest_AA_begin(self) ==
    LET g == self.graph
        out_degree == [i \in 1..Len(g) |-> <<g[i][1], Len(g[i][2])>>]
        Zero(n) == Get(out_degree, n) = 0
        nodes == [i \in 1..Len(g) |-> g[i][1]]
    IN  IF \E k \in 1..Len(g) : \E j \in 1..Len(g[k][2]) : ~Has(g, g[k][2][j])
        THEN [self |-> [self EXCEPT !.err = "KeyError"], lp |-> NoLoop]
        ELSE [self |-> self,
              lp |-> NewLoop("latest_AA", out_degree, SelectSeq(nodes, Zero),
                             << <<"END", self.makespan>> >>)]

\* lines 257-276
RECURSIVE latest_AA_predecessors(_, _, _, _)
latest_AA_predecessors(fr, current_node, preds, k) ==
    IF k > Len(preds) THEN fr
    ELSE LET predecessor_node == preds[k]
             arc == <<predecessor_node, current_node>>
         IN  IF IsTaskArc(fr.self, arc)
                /\ ~HasTask(fr.self.tasks, Get(fr.self.arc_to_task, arc))
             THEN Raise(fr, "KeyError")
             ELSE IF ~Has(fr.lp.event_times, current_node) THEN Raise(fr, "KeyError")
             ELSE LET duration ==
                          IF IsTaskArc(fr.self, arc)
                          THEN TaskOf(fr.self.tasks, Get(fr.self.arc_to_task, arc)).duration
                          ELSE 0
                      new_time == Get(fr.lp.event_times, current_node) - duration
                      fr2 == [fr EXCEPT !.lp.event_times =
                                 IF Has(@, predecessor_node)
                                 THEN Put(@, predecessor_node,
                                          Min2(Get(@, predecessor_node), new_time))
                                 ELSE Put(@, predecessor_node, new_time)]
                  IN  IF ~Has(fr.lp.out_degree, predecessor_node)
                      THEN Raise(fr2, "KeyError")
                      ELSE LET d == Get(fr.lp.out_degree, predecessor_node) - 1
                               fr3 == [fr2 EXCEPT
                                         !.lp.out_degree = Put(@, predecessor_node, d),
                                         !.lp.queue = IF d = 0
                                                      THEN Append(@, predecessor_node)
                                                      ELSE @]
                           IN  latest_AA_predecessors(fr3, current_node, preds, k + 1)

\* lines 255-276: one turn of the while loop
latest_AA_step(fr) ==
    LET current_node == Head(fr.lp.queue)
        fr1 == [fr EXCEPT !.lp = Popleft(@)]
        rg == reverse_graph_AA(fr.self)
    IN  IF ~Has(rg, current_node) THEN Raise(fr1, "KeyError")
        ELSE latest_AA_predecessors(fr1, current_node, Get(rg, current_node), 1)

\* lines 279-283
RECURSIVE latest_AA_assign(_, _)
latest_AA_assign(fr, k) ==
    IF k > Len(fr.self.arc_to_task) THEN fr
    ELSE LET start_node == fr.self.arc_to_task[k][1][1]
             end_node == fr.self.arc_to_task[k][1][2]
             task_id == fr.self.arc_to_task[k][2]
         IN  IF task_id \in Range(fr.self.dummy_tasks) THEN latest_AA_assign(fr, k + 1)
             ELSE IF ~HasTask(fr.self.tasks, task_id) THEN Raise(fr, "KeyError")
             ELSE LET i == TaskIndex(fr.self.tasks, task_id)
                  IN  IF ~Has(fr.lp.event_times, start_node) THEN Raise(fr, "KeyError")
                      ELSE LET fr2 == [fr EXCEPT !.self.tasks[i].latest_start =
                                          Get(fr.lp.event_times, start_node)]
                           IN  IF ~Has(fr.lp.event_times, end_node)
                               THEN Raise(fr2, "KeyError")
                               ELSE latest_AA_assign(
                                        [fr2 EXCEPT !.self.tasks[i].latest_finish =
                                            Get(fr.lp.event_times, end_node)], k + 1)

(* calculate_earliest_times and calculate_latest_times *)

\* the body of the while loop of the pass under way
PassStep(fr) ==
    CASE fr.lp.kind = "earliest_AN" -> earliest_AN_step(fr)
      [] fr.lp.kind = "earliest_AA" -> earliest_AA_step(fr)
      [] fr.lp.kind = "latest_AN" -> latest_AN_step(fr)
      [] fr.lp.kind = "latest_AA" -> latest_AA_step(fr)

\* "while queue:" has ended, by an empty queue or by an exception
PassLoopOver(fr) ==
    fr.self.err # "none" \/ fr.lp.kind = "none" \/ Len(fr.lp.queue) = 0

\* "while queue:" run to its end
RECURSIVE PassRun(_)
PassRun(fr) == IF PassLoopOver(fr) THEN fr ELSE PassRun(PassStep(fr))

\* lines 118-122: the code up to the while loop
earliest_begin(self) ==
    IF self.network_type = "AN" THEN earliest_AN_begin(self) ELSE earliest_AA_begin(self)

\* the code after the while loop
earliest_end(fr) ==
    IF fr.lp.kind = "earliest_AN" THEN earliest_AN_end(fr) ELSE earliest_AA_end(fr)

\* a forward pass that goes on to compute the slack of every task
calculate_earliest_times_then_slack(self) ==
    LET done == earliest_end(PassRun(earliest_begin(self))).self
    IN  [done EXCEPT !.tasks = [i \in 1..Len(@) |-> calculate_slack(@[i])]]

calculate_earliest_times(self) == earliest_end(PassRun(earliest_begin(self))).self

\* lines 194-198: the code up to the while loop
latest_begin(self) ==
    IF self.network_type = "AN" THEN latest_AN_begin(self) ELSE latest_AA_begin(self)

\* lines 278-283 (AA) and 200-202: the code after the while loop
latest_end(fr) ==
    IF fr.self.err # "none" THEN fr
    ELSE LET fr2 == IF fr.lp.kind = "latest_AA" THEN latest_AA_assign(fr, 1) ELSE fr
         IN  IF fr2.self.err # "none" THEN fr2
             ELSE [fr2 EXCEPT !.self.tasks =
                      [i \in 1..Len(fr2.self.tasks) |-> calculate_slack(fr2.self.tasks[i])]]

calculate_latest_times(self) == latest_end(PassRun(latest_begin(self))).self

-----------------------------------------------------------------------------
(* find_critical_path and create_schedule *)

\* list.sort(key=...) and sorted(key=...), Less on the keys: the sort is stable, so
\* seq[i] comes before seq[j] when its key is less, or equal with i < j
SortedBy(seq, Less(_, _)) ==
    LET n == Len(seq)
        Before(i, j) == Less(seq[i], seq[j]) \/ (~Less(seq[j], seq[i]) /\ i < j)
        Place(i) == Cardinality({j \in 1..n : Before(j, i)}) + 1
    IN  [k \in 1..n |-> seq[CHOOSE i \in 1..n : Place(i) = k]]

\* lines 285-291
find_critical_path(self) ==
    LET ByStart(t, u) == t.earliest_start < u.earliest_start
        critical_tasks == SelectSeq(self.tasks, is_critical)
        sorted == SortedBy(critical_tasks, ByStart)
    IN  [i \in 1..Len(sorted) |-> sorted[i].task_id]

\* line 305: the key (t.earliest_start, t.task_id)
ScheduleKeyLess(t, u) ==
    \/ t.earliest_start < u.earliest_start
    \/ t.earliest_start = u.earliest_start /\ StrLess(t.task_id, u.task_id)

\* a scheduler that looks at the task and not at the machine
CandidateStartIgnoringMachine(task, free_time) == task.earliest_start

\* lines 310 and 313: the start of a task on a machine that is free from free_time
CandidateStart(task, free_time) == Max2(task.earliest_start, free_time)

\* a scheduler whose comparison lets a later machine win a tie
RECURSIVE BestMachineLastOnTies(_, _, _, _)
BestMachineLastOnTies(task, avail, machine_id, best) ==
    IF machine_id >= Len(avail) THEN best
    ELSE LET candidate_start == CandidateStart(task, avail[machine_id + 1])
         IN  BestMachineLastOnTies(task, avail, machine_id + 1,
                         IF candidate_start <= best[2]
                         THEN <<machine_id, candidate_start>> ELSE best)

\* lines 309-316: the machine a task goes to and its start, as <<machine_id, start>>;
\* avail is machine_available_time, avail[m + 1] the entry of machine m
RECURSIVE BestMachine(_, _, _, _)
BestMachine(task, avail, machine_id, best) ==
    IF machine_id >= Len(avail) THEN best
    ELSE LET candidate_start == CandidateStart(task, avail[machine_id + 1])
         IN  BestMachine(task, avail, machine_id + 1,
                         IF candidate_start < best[2]
                         THEN <<machine_id, candidate_start>> ELSE best)

\* lines 307-322: st = [schedule, machine_available_time, err]
RECURSIVE ScheduleTasks(_, _, _)
ScheduleTasks(sorted_tasks, k, st) ==
    IF k > Len(sorted_tasks) THEN st
    ELSE IF Len(st.machine_available_time) = 0 THEN [st EXCEPT !.err = "IndexError"]
    ELSE LET task == sorted_tasks[k]
             best == BestMachine(task, st.machine_available_time, 1,
                         <<0, CandidateStart(task, st.machine_available_time[1])>>)
             start_time == best[2]
             end_time == start_time + task.duration
         IN  ScheduleTasks(sorted_tasks, k + 1,
                 [st EXCEPT
                    !.schedule = Put(@, best[1],
                                     Append(Get(@, best[1]),
                                            <<task.task_id, start_time, end_time>>)),
                    !.machine_available_time[best[1] + 1] = end_time])

\* lines 296-324: the result is [schedule, err]; range(n) is empty for n <= 0
create_schedule(self) ==
    LET n == IF self.num_machines > 0 THEN self.num_machines ELSE 0
        st == ScheduleTasks(SortedBy(self.tasks, ScheduleKeyLess), 1,
                  [schedule |-> [i \in 1..n |-> <<i - 1, <<>> >>],
                   machine_available_time |-> [i \in 1..n |-> 0],
                   err |-> "none"])
    IN  [schedule |-> st.schedule, err |-> st.err]

-----------------------------------------------------------------------------
(* main(): the state machine *)

Self ==
    [tasks |-> tasks, num_machines |-> num_machines, network_type |-> network_type,
     graph |-> graph, makespan |-> makespan, dummy_tasks |-> dummy_tasks,
     arc_to_task |-> arc_to_task, err |-> "none"]

\* the object after a call: its fields, the exception if any, and where main() goes
Commit(s, next_pc) ==
    /\ tasks' = s.tasks
    /\ num_machines' = s.num_machines
    /\ network_type' = s.network_type
    /\ graph' = s.graph
    /\ makespan' = s.makespan
    /\ dummy_tasks' = s.dummy_tasks
    /\ arc_to_task' = s.arc_to_task
    /\ err' = s.err
    /\ pc' = IF s.err = "none" THEN next_pc ELSE "failed"

\* the predecessor lists of a line: each sequence of at most n ids
SeqsUpTo(n) == UNION {[1..k -> Range(TaskIds)] : k \in 0..n}

\* the lists that name their ids once, in ascending order
Ascending(p) == \A i \in 1..Len(p) - 1 : StrLess(p[i], p[i + 1])

PredLists == {p \in SeqsUpTo(MaxPreds) : Ascending(p)}

\* zad3 main() before its first call
InitZad3 ==
    /\ tasks = NewTaskNetwork.tasks
    /\ num_machines = NewTaskNetwork.num_machines
    /\ network_type = NewTaskNetwork.network_type
    /\ graph = NewTaskNetwork.graph
    /\ makespan = NewTaskNetwork.makespan
    /\ dummy_tasks = NewTaskNetwork.dummy_tasks
    /\ arc_to_task = NewTaskNetwork.arc_to_task
    /\ pc = "start"
    /\ err = "none"
    /\ critical_path = <<>>
    /\ schedule = <<>>
    /\ loop = NoLoop
    /\ popped = <<>>

\* zad5 is not run
IdleZad5 ==
    /\ zad5_graph = [num_vertices |-> 0, directed |-> FALSE, adj_matrix |-> <<>>]
    /\ zad5_pc = "idle"
    /\ prim_result = <<>>
    /\ kruskal_result = <<>>

\* zad4 is not run
IdleZad4 ==
    /\ zad4_graph = [num_vertices |-> 0, directed |-> FALSE, adj_matrix |-> <<>>]
    /\ zad4_pc = "idle"
    /\ c3_result = <<>>

\* zad2 is not run
IdleZad2 ==
    /\ zad2_network = [n |-> 0, capacity |-> <<>>, flow |-> <<>>]
    /\ zad2_pc = "idle"
    /\ zad2_ends = <<>>
    /\ zad2_result = <<>>
    /\ zad2_path = <<>>
    /\ max_flow = 0

\* zad1 is not run
IdleZad1 == zad1_graph = [n |-> 0, matrix |-> <<>>, directed |-> FALSE]

Init == InitZad3 /\ IdleZad5 /\ IdleZad4 /\ IdleZad2 /\ IdleZad1

\* utils.py lines 20-23: the first line of the file
LoadMachines ==
    /\ pc = "start"
    /\ \E m \in 1..MaxMachines : Commit([Self EXCEPT !.num_machines = m], "load")
    /\ UNCHANGED besides_zad3
    /\ UNCHANGED <<critical_path, schedule, loop, popped>>

\* utils.py lines 26-35: one more line of the file; the file names its tasks in
\* the order of TaskIds, each once
AddTask ==
    /\ pc = "load"
    /\ Len(tasks) < Len(TaskIds)
    /\ \E d \in 0..MaxDur, p \in PredLists :
           Commit(add_task(Self, TaskIds[Len(tasks) + 1], d, p), "load")
    /\ UNCHANGED besides_zad3
    /\ UNCHANGED <<critical_path, schedule, loop, popped>>

\* main.py lines 38-39
BuildAN ==
    /\ pc = "load"
    /\ Commit(build_AN_network(Self), "built")
    /\ UNCHANGED besides_zad3
    /\ UNCHANGED <<critical_path, schedule, loop, popped>>

\* main.py lines 40-41
BuildAA ==
    /\ pc = "load"
    /\ \E reversed \in BOOLEAN : Commit(build_AA_network(Self, reversed), "built")
    /\ UNCHANGED besides_zad3
    /\ UNCHANGED <<critical_path, schedule, loop, popped>>

\* main.py line 45
CalcEarliest ==
    /\ pc = "built"
    /\ Commit(calculate_earliest_times(Self), "earliest")
    /\ UNCHANGED besides_zad3
    /\ UNCHANGED <<critical_path, schedule, loop, popped>>

\* main.py line 46
CalcLatest ==
    /\ pc = "earliest"
    /\ Commit(calculate_latest_times(Self), "latest")
    /\ UNCHANGED besides_zad3
    /\ UNCHANGED <<critical_path, schedule, loop, popped>>

\* main.py line 51 (print_critical_path)
FindCriticalPath ==
    /\ pc = "latest"
    /\ critical_path' = find_critical_path(Self)
    /\ pc' = "critical"
    /\ UNCHANGED besides_zad3
    /\ UNCHANGED <<tasks, num_machines, network_type, graph, makespan, dummy_tasks,
                   arc_to_task, err, schedule, loop, popped>>

\* main.py line 54
CreateSchedule ==
    /\ pc = "critical"
    /\ LET r == create_schedule(Self)
       IN  /\ schedule' = r.schedule
           /\ err' = r.err
           /\ pc' = IF r.err = "none" THEN "scheduled" ELSE "failed"
    /\ UNCHANGED besides_zad3
    /\ UNCHANGED <<tasks, num_machines, network_type, graph, makespan, dummy_tasks,
                   arc_to_task, critical_path, loop, popped>>

Next ==
    \/ LoadMachines
    \/ AddTask
    \/ BuildAN
    \/ BuildAA
    \/ CalcEarliest
    \/ CalcLatest
    \/ FindCriticalPath
    \/ CreateSchedule

Spec == Init /\ [][Next]_vars

(* The worked example: the four lines of ExampleTasks, in any order. *)

AddExampleTask ==
    /\ pc = "load"
    /\ \E k \in 1..Len(ExampleTasks) :
           /\ ~HasTask(tasks, ExampleTasks[k][1])
           /\ Commit(add_task(Self, ExampleTasks[k][1], ExampleTasks[k][2],
                              ExampleTasks[k][3]), "load")
    /\ UNCHANGED besides_zad3
    /\ UNCHANGED <<critical_path, schedule, loop, popped>>

NextExample ==
    \/ LoadMachines
    \/ AddExampleTask
    \/ BuildAN
    \/ BuildAA
    \/ CalcEarliest
    \/ CalcLatest
    \/ FindCriticalPath
    \/ CreateSchedule

SpecExample == Init /\ [][NextExample]_vars

(* The task file with any machine count and its lines in any order. *)

\* utils.py lines 20-23: int(lines[0]) is any integer
LoadAnyMachines ==
    /\ pc = "start"
    /\ \E m \in -1..MaxMachines : Commit([Self EXCEPT !.num_machines = m], "load")
    /\ UNCHANGED besides_zad3
    /\ UNCHANGED <<critical_path, schedule, loop, popped>>

\* utils.py lines 26-35: one more line; the file names each id of FewIds at
\* most once, in any order
AddFileTask ==
    /\ pc = "load"
    /\ \E id \in Range(FewIds), d \in 0..MaxDur, p \in PredLists :
           /\ ~HasTask(tasks, id)
           /\ Commit(add_task(Self, id, d, p), "load")
    /\ UNCHANGED besides_zad3
    /\ UNCHANGED <<critical_path, schedule, loop, popped>>

NextFile ==
    \/ LoadAnyMachines
    \/ AddFileTask
    \/ BuildAN
    \/ BuildAA
    \/ CalcEarliest
    \/ CalcLatest
    \/ FindCriticalPath
    \/ CreateSchedule

SpecFile == Init /\ [][NextFile]_vars

(* The methods of a TaskNetwork called in an order main() does not use. *)

\* calculate_earliest_times on an object on which no build has run
CalcEarliestUnbuilt ==
    /\ pc = "load"
    /\ Commit(calculate_earliest_times(Self), "earliest_unbuilt")
    /\ UNCHANGED besides_zad3
    /\ UNCHANGED <<critical_path, schedule, loop, popped>>

\* calculate_latest_times on an object on which no build has run
CalcLatestUnbuilt ==
    /\ pc = "load"
    /\ Commit(calculate_latest_times(Self), "latest_unbuilt")
    /\ UNCHANGED besides_zad3
    /\ UNCHANGED <<critical_path, schedule, loop, popped>>

\* calculate_latest_times right after a build
CalcLatestFirst ==
    /\ pc = "built"
    /\ Commit(calculate_latest_times(Self), "latest_first")
    /\ UNCHANGED besides_zad3
    /\ UNCHANGED <<critical_path, schedule, loop, popped>>

\* both passes once more on a computed network; the second is not reached when
\* the first raises
Recompute ==
    /\ pc = "latest"
    /\ LET again == calculate_earliest_times(Self)
       IN  Commit(IF again.err # "none" THEN again ELSE calculate_latest_times(again),
                  "recomputed")
    /\ UNCHANGED besides_zad3
    /\ UNCHANGED <<critical_path, schedule, loop, popped>>

\* add_task on an object on which a build has run
AddTaskAfterBuild ==
    /\ pc = "built"
    /\ \E id \in Range(FewIds), d \in 0..MaxDur, p \in PredLists :
           Commit(add_task(Self, id, d, p), "added")
    /\ UNCHANGED besides_zad3
    /\ UNCHANGED <<critical_path, schedule, loop, popped>>

NextCalls ==
    \/ LoadMachines
    \/ AddFileTask
    \/ BuildAN
    \/ BuildAA
    \/ CalcEarliest
    \/ CalcLatest
    \/ CalcEarliestUnbuilt
    \/ CalcLatestUnbuilt
    \/ CalcLatestFirst
    \/ Recompute
    \/ AddTaskAfterBuild

SpecCalls == Init /\ [][NextCalls]_vars

(* main() with the forward pass called once more after the backward pass. *)

\* calculate_earliest_times on a network whose LS, LF and slack are computed
CalcEarliestAgain ==
    /\ pc = "latest"
    /\ Commit(calculate_earliest_times(Self), "earliest_again")
    /\ UNCHANGED besides_zad3
    /\ UNCHANGED <<critical_path, schedule, loop, popped>>

NextFrame ==
    \/ LoadMachines
    \/ AddTask
    \/ BuildAN
    \/ BuildAA
    \/ CalcEarliest
    \/ CalcLatest
    \/ CalcEarliestAgain
    \/ FindCriticalPath
    \/ CreateSchedule

SpecFrame == Init /\ [][NextFrame]_vars

(* The registry: lines in any order, with an id named again, a negative    *)
(* duration, a predecessor named twice; then one of the builds.            *)

AddAnyTask ==
    /\ pc = "load"
    /\ \E id \in Range(FewIds), d \in -1..MaxDur, p \in SeqsUpTo(MaxPreds) :
           Commit(add_task(Self, id, d, p), "load")
    /\ UNCHANGED besides_zad3
    /\ UNCHANGED <<critical_path, schedule, loop, popped>>

\* build_AA_network called again on the object it has built, in a process with
\* either order of the node set
BuildAAAgain ==
    /\ pc = "built"
    /\ network_type = "AA"
    /\ \E reversed \in BOOLEAN : Commit(build_AA_network(Self, reversed), "rebuilt")
    /\ UNCHANGED besides_zad3
    /\ UNCHANGED <<critical_path, schedule, loop, popped>>

NextRegistry ==
    \/ LoadMachines
    \/ AddAnyTask
    \/ BuildAN
    \/ BuildAA
    \/ BuildAAAgain

SpecRegistry == Init /\ [][NextRegistry]_vars

(* The passes one turn of "while queue:" at a time. *)

Frame == [self |-> Self, lp |-> loop]

CommitFrame(fr, next_pc) == Commit(fr.self, next_pc) /\ loop' = fr.lp

\* a line whose predecessors may repeat; the duration plays no part in the loops
AddLoopTask ==
    /\ pc = "load"
    /\ Len(tasks) < Len(TaskIds)
    /\ \E d \in {1}, p \in SeqsUpTo(MaxPreds) :
           Commit(add_task(Self, TaskIds[Len(tasks) + 1], d, p), "load")
    /\ UNCHANGED besides_zad3
    /\ UNCHANGED <<critical_path, schedule, loop, popped>>

\* calculate_earliest_times up to its while loop
BeginEarliest ==
    /\ pc = "built"
    /\ CommitFrame(earliest_begin(Self), "earliest_loop")
    /\ popped' = <<>>
    /\ UNCHANGED besides_zad3
    /\ UNCHANGED <<critical_path, schedule>>

\* one turn of the while loop of either pass
Turn ==
    /\ pc \in {"earliest_loop", "latest_loop"}
    /\ Len(loop.queue) > 0
    /\ CommitFrame(PassStep(Frame), pc)
    /\ popped' = Append(popped, Head(loop.queue))
    /\ UNCHANGED besides_zad3
    /\ UNCHANGED <<critical_path, schedule>>

\* calculate_earliest_times from the end of its while loop
EndEarliest ==
    /\ pc = "earliest_loop"
    /\ Len(loop.queue) = 0
    /\ Commit(earliest_end(Frame).self, "earliest")
    /\ loop' = NoLoop
    /\ UNCHANGED besides_zad3
    /\ UNCHANGED <<critical_path, schedule, popped>>

\* calculate_latest_times up to its while loop
BeginLatest ==
    /\ pc = "earliest"
    /\ CommitFrame(latest_begin(Self), "latest_loop")
    /\ popped' = <<>>
    /\ UNCHANGED besides_zad3
    /\ UNCHANGED <<critical_path, schedule>>

\* calculate_latest_times from the end of its while loop
EndLatest ==
    /\ pc = "latest_loop"
    /\ Len(loop.queue) = 0
    /\ Commit(latest_end(Frame).self, "latest")
    /\ loop' = NoLoop
    /\ UNCHANGED besides_zad3
    /\ UNCHANGED <<critical_path, schedule, popped>>

NextLoops ==
    \/ LoadMachines
    \/ AddLoopTask
    \/ BuildAN
    \/ BuildAA
    \/ BeginEarliest
    \/ Turn
    \/ EndEarliest
    \/ BeginLatest
    \/ EndLatest

\* Turn, by what a turn always does: it takes the head of the queue
Dequeue ==
    /\ pc \in {"earliest_loop", "latest_loop"}
    /\ Len(loop.queue) > 0
    /\ popped' = Append(popped, Head(loop.queue))

\* EndEarliest and EndLatest, by what they always do: the call returns or raises
Leave ==
    /\ pc \in {"earliest_loop", "latest_loop"}
    /\ Len(loop.queue) = 0
    /\ pc' \in {"earliest", "latest", "failed"}

\* a pass is a call in one thread: while the queue has an element the loop takes
\* its next turn, and when it is empty the call goes on to its end
SpecLoops == Init /\ [][NextLoops]_vars /\ WF_popped(Dequeue) /\ WF_pc(Leave)

-----------------------------------------------------------------------------
(* zad5: class Graph and its two spanning tree algorithms.  Vertices are    *)
(* 0 .. num_vertices - 1 and adj_matrix[u][v] = 0 means no edge.            *)

\* Graph.__init__
Graph(num_vertices, directed) ==
    [num_vertices |-> num_vertices, directed |-> directed,
     adj_matrix |-> [i \in 0..(num_vertices - 1) |->
                        [j \in 0..(num_vertices - 1) |-> 0]]]

\* Graph.add_edge; the result has err = "ValueError" for a vertex out of range
add_edge(g, u, v, weight) ==
    IF u < 0 \/ u >= g.num_vertices \/ v < 0 \/ v >= g.num_vertices
    THEN [graph |-> g, err |-> "ValueError"]
    ELSE LET g1 == [g EXCEPT !.adj_matrix[u][v] = weight]
         IN  [graph |-> IF ~g.directed THEN [g1 EXCEPT !.adj_matrix[v][u] = weight]
                        ELSE g1,
              err |-> "none"]

\* lines 290-295: the vertex outside the tree with the least min_weight, the
\* first such in index order; -1 when none is below the start value
RECURSIVE PrimPick(_, _, _, _, _)
PrimPick(st, n, v, u, min_val) ==
    IF v >= n THEN u
    ELSE IF ~st.in_mst[v] /\ st.min_weight[v] < min_val
         THEN PrimPick(st, n, v + 1, v, st.min_weight[v])
         ELSE PrimPick(st, n, v + 1, u, min_val)

\* lines 312-317: the edges out of u offered to the vertices outside the tree
RECURSIVE PrimRelax(_, _, _, _)
PrimRelax(g, st, u, v) ==
    IF v >= g.num_vertices THEN st
    ELSE LET weight == g.adj_matrix[u][v]
         IN  IF ~st.in_mst[v] /\ weight # 0 /\ weight < st.min_weight[v]
             THEN PrimRelax(g, [st EXCEPT !.min_weight[v] = weight, !.parent[v] = u],
                            u, v + 1)
             ELSE PrimRelax(g, st, u, v + 1)

\* lines 288-317: the iterations of "for _ in range(n)" that are left
RECURSIVE PrimLoop(_, _, _)
PrimLoop(g, st, left) ==
    IF left = 0 THEN st
    ELSE LET u == PrimPick(st, g.num_vertices, 0, -1, float_info_max)
         IN  IF u = -1 THEN st
             ELSE LET st1 == [st EXCEPT !.in_mst[u] = TRUE,
                                        !.total_weight = @ + st.min_weight[u]]
                      st2 == IF st.parent[u] # -1
                             THEN [st1 EXCEPT !.mst_edges =
                                      Append(@, <<Min2(st.parent[u], u),
                                                  Max2(st.parent[u], u),
                                                  st.min_weight[u]>>)]
                             ELSE st1
                  IN  PrimLoop(g, PrimRelax(g, st2, u, 0), left - 1)

\* Graph.prim_mst
prim_mst(g, start_vertex) ==
    IF g.directed THEN [mst_edges |-> <<>>, total_weight |-> 0, err |-> "ValueError"]
    ELSE IF g.num_vertices = 0 THEN [mst_edges |-> <<>>, total_weight |-> 0, err |-> "none"]
    ELSE LET V == 0..(g.num_vertices - 1)
             st == [in_mst |-> [v \in V |-> FALSE],
                    min_weight |-> [v \in V |-> IF v = start_vertex THEN 0
                                                ELSE float_info_max],
                    parent |-> [v \in V |-> -1],
                    mst_edges |-> <<>>, total_weight |-> 0]
             end == PrimLoop(g, st, g.num_vertices)
         IN  [mst_edges |-> end.mst_edges, total_weight |-> end.total_weight,
              err |-> "none"]

\* lines 338-341: the edges of the upper triangle in the order of (u, v)
RECURSIVE KruskalEdges(_, _, _, _)
KruskalEdges(g, u, v, edges) ==
    IF u >= g.num_vertices THEN edges
    ELSE IF v >= g.num_vertices THEN KruskalEdges(g, u + 1, u + 2, edges)
    ELSE IF g.adj_matrix[u][v] # 0
         THEN KruskalEdges(g, u, v + 1, Append(edges, <<u, v, g.adj_matrix[u][v]>>))
         ELSE KruskalEdges(g, u, v + 1, edges)

\* a sort that compares nothing: the edges stay in the order of (u, v)
EdgeOrderKept(a, b) == FALSE

\* line 344: key=lambda x: x[2]
EdgeWeightLess(a, b) == a[3] < b[3]

\* lines 350-354: find with path compression; the root and the parents after it
RECURSIVE find(_, _)
find(parent, x) ==
    IF parent[x] # x
    THEN LET r == find(parent, parent[x])
         IN  [parent |-> [r.parent EXCEPT ![x] = r.root], root |-> r.root]
    ELSE [parent |-> parent, root |-> x]

\* lines 356-373: union by rank; ok is the value returned
union(uf, x, y) ==
    LET fx == find(uf.parent, x)
        fy == find(fx.parent, y)
        root_x == fx.root
        root_y == fy.root
        parent == fy.parent
    IN  IF root_x = root_y THEN [parent |-> parent, rank |-> uf.rank, ok |-> FALSE]
        ELSE IF uf.rank[root_x] < uf.rank[root_y]
             THEN [parent |-> [parent EXCEPT ![root_x] = root_y], rank |-> uf.rank,
                   ok |-> TRUE]
        ELSE IF uf.rank[root_x] > uf.rank[root_y]
             THEN [parent |-> [parent EXCEPT ![root_y] = root_x], rank |-> uf.rank,
                   ok |-> TRUE]
        ELSE [parent |-> [parent EXCEPT ![root_y] = root_x],
              rank |-> [uf.rank EXCEPT ![root_x] = @ + 1], ok |-> TRUE]

\* lines 379-384: the sorted edges from the k-th on
RECURSIVE KruskalLoop(_, _, _, _)
KruskalLoop(n, edges, k, st) ==
    IF k > Len(edges) THEN st
    ELSE LET e == edges[k]
             un == union(st, e[1], e[2])
             st1 == [st EXCEPT !.parent = un.parent, !.rank = un.rank]
         IN  IF un.ok
             THEN LET st2 == [st1 EXCEPT !.mst_edges = Append(@, e),
                                         !.total_weight = @ + e[3]]
                  IN  IF Len(st2.mst_edges) = n - 1 THEN st2
                      ELSE KruskalLoop(n, edges, k + 1, st2)
             ELSE KruskalLoop(n, edges, k + 1, st1)

\* Graph.kruskal_mst
kruskal_mst(g) ==
    IF g.directed THEN [mst_edges |-> <<>>, total_weight |-> 0, err |-> "ValueError"]
    ELSE IF g.num_vertices = 0 THEN [mst_edges |-> <<>>, total_weight |-> 0, err |-> "none"]
    ELSE LET V == 0..(g.num_vertices - 1)
             edges == SortedBy(KruskalEdges(g, 0, 1, <<>>), EdgeWeightLess)
             st == [parent |-> [v \in V |-> v], rank |-> [v \in V |-> 0],
                    mst_edges |-> <<>>, total_weight |-> 0]
             end == KruskalLoop(g.num_vertices, edges, 1, st)
         IN  [mst_edges |-> end.mst_edges, total_weight |-> end.total_weight,
              err |-> "none"]

(* zad5 main(): the graph is loaded edge by edge, then Prim, then Kruskal. *)

\* utils.py line 30: the first line of the file gives the number of vertices
InitZad5 ==
    /\ \E n \in 0..MaxVertices : zad5_graph = Graph(n, FALSE)
    /\ zad5_pc = "load"
    /\ prim_result = <<>>
    /\ kruskal_result = <<>>

InitMst == InitZad3 /\ InitZad5 /\ IdleZad4 /\ IdleZad2 /\ IdleZad1

\* utils.py lines 60-86: one more edge line (an edge named again is overwritten)
AddEdge ==
    /\ zad5_pc = "load"
    /\ \E u, v \in 0..(zad5_graph.num_vertices - 1), w \in Weights :
           /\ u # v
           /\ zad5_graph' = add_edge(zad5_graph, u, v, w).graph
    /\ UNCHANGED <<zad5_pc, prim_result, kruskal_result>>
    /\ UNCHANGED besides_zad5

\* main.py line 90, with any vertex as --start-vertex
RunPrim ==
    /\ zad5_pc = "load"
    /\ \E start_vertex \in 0..Max2(zad5_graph.num_vertices - 1, 0) :
           prim_result' = prim_mst(zad5_graph, start_vertex)
    /\ zad5_pc' = "prim"
    /\ UNCHANGED <<zad5_graph, kruskal_result>>
    /\ UNCHANGED besides_zad5

\* main.py line 108
RunKruskal ==
    /\ zad5_pc = "prim"
    /\ kruskal_result' = kruskal_mst(zad5_graph)
    /\ zad5_pc' = "kruskal"
    /\ UNCHANGED <<zad5_graph, prim_result>>
    /\ UNCHANGED besides_zad5

NextMst ==
    \/ AddEdge
    \/ RunPrim
    \/ RunKruskal

SpecMst == InitMst /\ [][NextMst]_vars

-----------------------------------------------------------------------------
(* zad4/Graph.py: C_3 cycles by triples and by the cube of the adjacency   *)
(* matrix.  A matrix is a function on 0 .. n - 1; a method that raises     *)
(* gives err and no value.                                                 *)

\* Graph.__init__, lines 10-22
zad4_Graph(num_vertices, directed) ==
    [num_vertices |-> num_vertices, directed |-> directed,
     adj_matrix |-> [i \in 0..(num_vertices - 1) |->
                        [j \in 0..(num_vertices - 1) |-> 0]]]

\* Graph.add_edge, lines 30-43
zad4_add_edge(g, u, v) ==
    IF u < 0 \/ u >= g.num_vertices \/ v < 0 \/ v >= g.num_vertices
    THEN [graph |-> g, err |-> "ValueError"]
    ELSE [graph |-> [g EXCEPT !.adj_matrix[u][v] = 1,
                              !.adj_matrix[v][u] = IF g.directed /\ u # v THEN @ ELSE 1],
          err |-> "none"]

\* lines 45-47
has_edge(g, u, v) == g.adj_matrix[u][v] = 1

\* _is_triangle, lines 74-90
is_triangle(g, i, j, k) ==
    IF ~g.directed
    THEN has_edge(g, i, j) /\ has_edge(g, j, k) /\ has_edge(g, k, i)
    ELSE \/ has_edge(g, i, j) /\ has_edge(g, j, k) /\ has_edge(g, k, i)
         \/ has_edge(g, i, k) /\ has_edge(g, k, j) /\ has_edge(g, j, i)

\* for i in range(n): for j in range(n): for k in range(n): the triples in the
\* order the three loops go through them
LoopTriples(n) ==
    [x \in 1..(n * n * n) |->
        <<(x - 1) \div (n * n), ((x - 1) \div n) % n, (x - 1) % n>>]

\* lines 64-66: for i, for j in range(i + 1, n), for k in range(j + 1, n)
RisingTriples(n) ==
    LET Rising(t) == t[1] < t[2] /\ t[2] < t[3]
    IN  SelectSeq(LoopTriples(n), Rising)

\* lines 53-70
has_c3_naive(g) ==
    \E x \in 1..Len(RisingTriples(g.num_vertices)) :
        LET t == RisingTriples(g.num_vertices)[x]
        IN  is_triangle(g, t[1], t[2], t[3])

\* lines 111-129
find_all_c3_naive(g) ==
    LET Triangle(t) == is_triangle(g, t[1], t[2], t[3])
    IN  SelectSeq(RisingTriples(g.num_vertices), Triangle)

\* lines 156-159: result[i][j] += A[i][k] * B[k][j] for k in range(m)
RECURSIVE DotProduct(_, _, _, _, _)
DotProduct(A, B, i, j, k) ==
    IF k < 0 THEN 0 ELSE DotProduct(A, B, i, j, k - 1) + A[i][k] * B[k][j]

\* lines 131-161; len(A) is the number of rows
multiply_matrices(A, B) ==
    LET n == Cardinality(DOMAIN A)
        m == Cardinality(DOMAIN B)
        p == IF m > 0 THEN Cardinality(DOMAIN B[0]) ELSE 0
    IN  IF n = 0 \/ m = 0 THEN [matrix |-> <<>>, err |-> "ValueError"]
        ELSE IF Cardinality(DOMAIN A[0]) # m THEN [matrix |-> <<>>, err |-> "ValueError"]
        ELSE [matrix |-> [i \in 0..(n - 1) |->
                             [j \in 0..(p - 1) |-> DotProduct(A, B, i, j, m - 1)]],
              err |-> "none"]

\* lines 178-182 and 207-211: A3 = (A * A) * A
Cube(g) ==
    LET A2 == multiply_matrices(g.adj_matrix, g.adj_matrix)
    IN  IF A2.err # "none" THEN A2 ELSE multiply_matrices(A2.matrix, g.adj_matrix)

\* lines 163-189
has_c3_matrix(g) ==
    LET A3 == Cube(g)
    IN  IF A3.err # "none" THEN [value |-> FALSE, err |-> A3.err]
        ELSE [value |-> \E i \in 0..(g.num_vertices - 1) : A3.matrix[i][i] > 0,
              err |-> "none"]

\* line 214: sum(A3[i][i] for i in range(num_vertices))
RECURSIVE Trace(_, _)
Trace(M, i) == IF i < 0 THEN 0 ELSE Trace(M, i - 1) + M[i][i]

\* lines 191-220
count_c3_matrix(g) ==
    LET A3 == Cube(g)
    IN  IF A3.err # "none" THEN [value |-> 0, err |-> A3.err]
        ELSE [value |-> IF ~g.directed
                        THEN Trace(A3.matrix, g.num_vertices - 1) \div 6
                        ELSE Trace(A3.matrix, g.num_vertices - 1) \div 3,
              err |-> "none"]

\* tuple(sorted([i, j, k])), line 291
SortedTriple(t) ==
    LET lo == Min2(t[1], Min2(t[2], t[3]))
        hi == Max2(t[1], Max2(t[2], t[3]))
    IN  <<lo, t[1] + t[2] + t[3] - lo - hi, hi>>

\* lines 282-294: the directed search, one (i, j, k) of the loops at a time;
\* st = [triangles, seen]
RECURSIVE DirectedCycles(_, _, _, _)
DirectedCycles(g, triples, x, st) ==
    IF x > Len(triples) THEN st.triangles
    ELSE LET i == triples[x][1]
             j == triples[x][2]
             k == triples[x][3]
             cycle == SortedTriple(triples[x])
         IN  IF /\ i # j /\ has_edge(g, i, j)
                /\ k # i /\ k # j
                /\ has_edge(g, j, k) /\ has_edge(g, k, i)
                /\ cycle \notin st.seen
             THEN DirectedCycles(g, triples, x + 1,
                      [triangles |-> Append(st.triangles, triples[x]),
                       seen |-> st.seen \cup {cycle}])
             ELSE DirectedCycles(g, triples, x + 1, st)

\* lines 258-296
find_all_c3_matrix_assisted(g) ==
    IF ~g.directed
    THEN LET Found(t) == has_edge(g, t[1], t[2]) /\ has_edge(g, t[1], t[3])
                         /\ has_edge(g, t[2], t[3])
         IN  SelectSeq(RisingTriples(g.num_vertices), Found)
    ELSE DirectedCycles(g, LoopTriples(g.num_vertices), 1,
                        [triangles |-> <<>>, seen |-> {}])

(* A graph built with add_edge, then the C_3 methods called on it, as the  *)
(* tests of test_correctness.py and main() do.                             *)

InitZad4 ==
    /\ \E n \in 0..MaxC3Vertices, directed \in BOOLEAN :
           zad4_graph = zad4_Graph(n, directed)
    /\ zad4_pc = "build"
    /\ c3_result = <<>>

InitC3 == InitZad3 /\ IdleZad5 /\ InitZad4 /\ IdleZad2 /\ IdleZad1

\* g.add_edge(u, v) with u and v in range
C3AddEdge ==
    /\ zad4_pc = "build"
    /\ \E u, v \in 0..(zad4_graph.num_vertices - 1) :
           zad4_graph' = zad4_add_edge(zad4_graph, u, v).graph
    /\ UNCHANGED <<zad4_pc, c3_result>>
    /\ UNCHANGED besides_zad4

\* the methods called on the graph
RunC3 ==
    /\ zad4_pc = "build"
    /\ c3_result' = [has_c3_naive |-> has_c3_naive(zad4_graph),
                     find_all_c3_naive |-> find_all_c3_naive(zad4_graph),
                     has_c3_matrix |-> has_c3_matrix(zad4_graph),
                     count_c3_matrix |-> count_c3_matrix(zad4_graph),
                     find_all_c3_matrix_assisted |->
                         find_all_c3_matrix_assisted(zad4_graph)]
    /\ zad4_pc' = "done"
    /\ UNCHANGED zad4_graph
    /\ UNCHANGED besides_zad4

NextC3 ==
    \/ C3AddEdge
    \/ RunC3

SpecC3 == InitC3 /\ [][NextC3]_vars

-----------------------------------------------------------------------------
(* zad1/Graph.py: the adjacency matrix as a list of rows.  Entry v of row  *)
(* u (from 0) is matrix[u + 1][v + 1].                                     *)

\* Graph.__init__, lines 16-19
zad1_Graph(n, directed) ==
    [n |-> n, matrix |-> [i \in 1..n |-> [j \in 1..n |-> 0]], directed |-> directed]

\* lines 21-24
zad1_add_edge(g, u, v) ==
    LET m1 == [g.matrix EXCEPT ![u + 1][v + 1] = 1]
    IN  [g EXCEPT !.matrix = IF g.directed THEN m1
                             ELSE [m1 EXCEPT ![v + 1][u + 1] = 1]]

\* lines 26-29
remove_edge(g, u, v) ==
    LET m1 == [g.matrix EXCEPT ![u + 1][v + 1] = 0]
    IN  [g EXCEPT !.matrix = IF g.directed THEN m1
                             ELSE [m1 EXCEPT ![v + 1][u + 1] = 0]]

\* lines 31-35: the row appended has the new n entries, and the loop appends
\* one more entry to every row, that row included
add_node(g) ==
    LET n == g.n + 1
        appended == Append(g.matrix, [j \in 1..n |-> 0])
    IN  [g EXCEPT !.n = n,
                  !.matrix = [i \in 1..Len(appended) |-> Append(appended[i], 0)]]

\* list.pop(u), u in range
Pop(list, u) == [i \in 1..(Len(list) - 1) |-> IF i <= u THEN list[i] ELSE list[i + 1]]

\* lines 37-41
remove_node(g, u) ==
    LET popped_row == Pop(g.matrix, u)
    IN  [g EXCEPT !.n = g.n - 1,
                  !.matrix = [i \in 1..Len(popped_row) |-> Pop(popped_row[i], u)]]

(* A graph and any sequence of the four calls with arguments in range. *)

InitZad1 ==
    \E n \in 0..MaxNodes, directed \in BOOLEAN : zad1_graph = zad1_Graph(n, directed)

InitGraph == InitZad3 /\ IdleZad5 /\ IdleZad4 /\ IdleZad2 /\ InitZad1

AddEdge1 ==
    /\ \E u, v \in 0..(zad1_graph.n - 1) :
           zad1_graph' = zad1_add_edge(zad1_graph, u, v)
    /\ UNCHANGED besides_zad1

RemoveEdge ==
    /\ \E u, v \in 0..(zad1_graph.n - 1) :
           zad1_graph' = remove_edge(zad1_graph, u, v)
    /\ UNCHANGED besides_zad1

AddNode ==
    /\ zad1_graph.n < MaxNodes
    /\ zad1_graph' = add_node(zad1_graph)
    /\ UNCHANGED besides_zad1

RemoveNode ==
    /\ \E u \in 0..(zad1_graph.n - 1) : zad1_graph' = remove_node(zad1_graph, u)
    /\ UNCHANGED besides_zad1

NextGraph ==
    \/ AddEdge1
    \/ RemoveEdge
    \/ AddNode
    \/ RemoveNode

SpecGraph == InitGraph /\ [][NextGraph]_vars

-----------------------------------------------------------------------------
(* zad2/FlowNetwork.py: Edmonds-Karp.  The matrices are functions on       *)
(* 0 .. n - 1; the dict labels is a sequence of <<v, label>> pairs.        *)

\* FlowNetwork.__init__, lines 5-8
FlowNetwork(n) ==
    [n |-> n,
     capacity |-> [i \in 0..(n - 1) |-> [j \in 0..(n - 1) |-> 0]],
     flow |-> [i \in 0..(n - 1) |-> [j \in 0..(n - 1) |-> 0]]]

\* lines 10-11
zad2_add_edge(net, u, v, capacity) == [net EXCEPT !.capacity[u][v] = capacity]

\* lines 13-14
get_residual_capacity(net, u, v) == net.capacity[u][v] - net.flow[u][v]

\* a + b on numbers one of which may be float('inf')
Plus(a, b) == IF a = float_inf \/ b = float_inf THEN float_inf ELSE a + b

\* lines 36-45: for v in range(self.n); st = [labels, visited, queue]
RECURSIVE BfsNeighbours(_, _, _, _)
BfsNeighbours(net, u, v, st) ==
    IF v >= net.n THEN st
    ELSE LET residual_cap == get_residual_capacity(net, u, v)
         IN  IF residual_cap > 0 /\ v \notin st.visited
             THEN LET min_flow == Min2(Get(st.labels, u)[3], residual_cap)
                  IN  BfsNeighbours(net, u, v + 1,
                          [labels |-> Put(st.labels, v, <<u, residual_cap, min_flow>>),
                           visited |-> st.visited \cup {v},
                           queue |-> Append(st.queue, v)])
             ELSE BfsNeighbours(net, u, v + 1, st)

\* lines 28-45: while queue
RECURSIVE BfsLoop(_, _, _)
BfsLoop(net, sink, st) ==
    IF Len(st.queue) = 0 THEN st
    ELSE LET u == Head(st.queue)
             st1 == [st EXCEPT !.queue = Tail(@)]
         IN  IF u = sink THEN st1
             ELSE BfsLoop(net, sink, BfsNeighbours(net, u, 0, st1))

\* lines 16-50: the result is None (found = FALSE) or (labels, bottleneck)
bfs_find_augmenting_path(net, source, sink) ==
    LET st == BfsLoop(net, sink,
                  [labels |-> << <<source, <<None, float_inf, float_inf>> >> >>,
                   visited |-> {source},
                   queue |-> <<source>>])
    IN  IF Has(st.labels, sink)
        THEN [found |-> TRUE, labels |-> st.labels, bottleneck |-> Get(st.labels, sink)[3]]
        ELSE [found |-> FALSE, labels |-> <<>>, bottleneck |-> 0]

\* lines 55-60: the path from the sink back to the source
RECURSIVE PathBack(_, _, _, _)
PathBack(source, labels, v, path) ==
    IF v = source THEN path
    ELSE LET parent == Get(labels, v)[1]
         IN  PathBack(source, labels, parent, Append(path, <<parent, v>>))

\* an augmentation that adds to the flow of the path and takes nothing from
\* the flow the other way
RECURSIVE PushForwardOnly(_, _, _, _)
PushForwardOnly(flow, path, k, bottleneck) ==
    IF k > Len(path) THEN flow
    ELSE LET u == path[k][1]
             v == path[k][2]
         IN  PushForwardOnly([flow EXCEPT ![u][v] = Plus(@, bottleneck)],
                             path, k + 1, bottleneck)

\* lines 63-65: flow[u][v] += bottleneck; flow[v][u] -= bottleneck
RECURSIVE Push(_, _, _, _)
Push(flow, path, k, bottleneck) ==
    IF k > Len(path) THEN flow
    ELSE LET u == path[k][1]
             v == path[k][2]
             f1 == [flow EXCEPT ![u][v] = Plus(@, bottleneck)]
         IN  Push([f1 EXCEPT ![v][u] = @ - bottleneck], path, k + 1, bottleneck)

\* lines 52-67: the result is the network and the path
augment_flow(net, source, sink, labels, bottleneck) ==
    LET path == PathBack(source, labels, sink, <<>>)
    IN  [network |-> [net EXCEPT !.flow = Push(@, path, 1, bottleneck)],
         path |-> path]

(* zad2 main(): the network of the file, then edmonds_karp, one turn of    *)
(* "while True" in two steps.  The locals iteration and augmenting_paths   *)
(* are only printed; of augmenting_paths the last path is kept.            *)

\* utils.py lines 5-25 on the file of LadderArcs, every line with capacity c
LadderNetwork(c) ==
    [FlowNetwork(6) EXCEPT
        !.capacity = [u \in 0..5 |-> [v \in 0..5 |->
                         IF <<u, v>> \in LadderArcs THEN c ELSE 0]]]

\* utils.py lines 19-20: n is the largest node of the file + 1; the file is
\* read line by line (AddFlowEdge), the file of LadderArcs as a whole
InitZad2 ==
    /\ \/ \E n \in 1..MaxFlowNodes : zad2_network = FlowNetwork(n)
       \/ \E c \in 1..MaxCapacity : zad2_network = LadderNetwork(c)
    /\ zad2_pc = "load"
    /\ zad2_ends = <<>>
    /\ zad2_result = <<>>
    /\ zad2_path = <<>>
    /\ max_flow = 0

InitFlow == InitZad3 /\ IdleZad5 /\ IdleZad4 /\ InitZad2 /\ IdleZad1

\* utils.py lines 22-23
AddFlowEdge ==
    /\ zad2_pc = "load"
    /\ zad2_network.n <= MaxFlowNodes
    /\ \E u, v \in 0..(zad2_network.n - 1), capacity \in 0..MaxCapacity :
           zad2_network' = zad2_add_edge(zad2_network, u, v, capacity)
    /\ UNCHANGED <<zad2_pc, zad2_ends, zad2_result, zad2_path, max_flow>>
    /\ UNCHANGED besides_zad2

\* FlowNetwork.py lines 69-76: the call, with any source and sink in range
\* (main.py lines 23-29 calls it with 0 and n - 1)
CallEdmondsKarp ==
    /\ zad2_pc = "load"
    /\ \E source, sink \in 0..(zad2_network.n - 1) : zad2_ends' = <<source, sink>>
    /\ max_flow' = 0
    /\ zad2_pc' = "bfs"
    /\ UNCHANGED <<zad2_network, zad2_result, zad2_path>>
    /\ UNCHANGED besides_zad2

\* lines 78-84 and 100: result = bfs_find_augmenting_path(...); break and
\* return when it is None
FindPath ==
    /\ zad2_pc = "bfs"
    /\ zad2_result' = bfs_find_augmenting_path(zad2_network, zad2_ends[1], zad2_ends[2])
    /\ zad2_pc' = IF zad2_result'.found THEN "augment" ELSE "returned"
    /\ UNCHANGED <<zad2_network, zad2_ends, zad2_path, max_flow>>
    /\ UNCHANGED besides_zad2

\* lines 86-92: augment_flow and max_flow += bottleneck
Augment ==
    /\ zad2_pc = "augment"
    /\ LET r == augment_flow(zad2_network, zad2_ends[1], zad2_ends[2],
                             zad2_result.labels, zad2_result.bottleneck)
       IN  /\ zad2_network' = r.network
           /\ zad2_path' = r.path
    /\ max_flow' = Plus(max_flow, zad2_result.bottleneck)
    /\ zad2_pc' = "bfs"
    /\ UNCHANGED <<zad2_ends, zad2_result>>
    /\ UNCHANGED besides_zad2

NextFlow ==
    \/ AddFlowEdge
    \/ CallEdmondsKarp
    \/ FindPath
    \/ Augment

\* FindPath and Augment, by what they always do: edmonds_karp moves on from
\* the line it is at
GoOn ==
    /\ zad2_pc \in {"bfs", "augment"}
    /\ zad2_pc' \in {"bfs", "augment", "returned"}

\* main.py lines 23-29: source = 0, sink = network.n - 1
CallFromMain ==
    /\ zad2_pc = "load"
    /\ zad2_ends' = <<0, zad2_network.n - 1>>
    /\ max_flow' = 0
    /\ zad2_pc' = "bfs"
    /\ UNCHANGED <<zad2_network, zad2_result, zad2_path>>
    /\ UNCHANGED besides_zad2

NextFlowMain ==
    \/ AddFlowEdge
    \/ CallFromMain
    \/ FindPath
    \/ Augment

\* main() is one thread: a call that is under way goes on
SpecFlowMain == InitFlow /\ [][NextFlowMain]_vars /\ WF_zad2_pc(GoOn)

\* a call that is under way goes on: main() is one thread
SpecFlow == InitFlow /\ [][NextFlow]_vars /\ WF_zad2_pc(GoOn)

-----------------------------------------------------------------------------
(* What the claims speak of. *)

TaskIdSet(ts) == {ts[i].task_id : i \in 1..Len(ts)}

\* every predecessor id is a registered task
PredsRegistered(ts) ==
    \A i \in 1..Len(ts) : Range(ts[i].predecessors) \subseteq TaskIdSet(ts)

\* the tasks that a topological ordering reaches, starting from done
RECURSIVE Ordered(_, _)
Ordered(ts, done) ==
    LET more == {ts[i].task_id : i \in {j \in 1..Len(ts) :
                                           Range(ts[j].predecessors) \subseteq done}}
    IN  IF more = done THEN done ELSE Ordered(ts, more)

\* the task set is valid (predecessors registered) and has a topological ordering
Acyclic(ts) == Ordered(ts, {}) = TaskIdSet(ts)

\* the predecessors are registered and some tasks lie on or behind a dependency cycle
Cyclic(ts) == PredsRegistered(ts) /\ ~Acyclic(ts)

\* the task set as registered: every computed field back at its initial value
Registry(ts) == [i \in 1..Len(ts) |-> Task(ts[i].task_id, ts[i].duration,
                                           ts[i].predecessors)]

Fresh == [NewTaskNetwork EXCEPT !.tasks = Registry(tasks), !.num_machines = num_machines]

\* the same task set taken through the AN encoding
ForwardAN == calculate_earliest_times(build_AN_network(Fresh))

BackwardAN == calculate_latest_times(ForwardAN)

Times(t) == <<t.earliest_start, t.earliest_finish, t.latest_start, t.latest_finish,
              t.slack>>

\* C1: on an acyclic task set the AA computation gives every task the ES, EF, LS,
\* LF and slack that the AN computation gives it
C1_CrossEncoding ==
    (pc = "latest" /\ network_type = "AA" /\ Acyclic(tasks))
        => \A i \in 1..Len(tasks) : Times(tasks[i]) = Times(BackwardAN.tasks[i])

\* C2: after the forward pass on an acyclic task set the makespan is the largest
\* EF, and it is the same in the AA encoding as in the AN encoding
C2_Makespan ==
    (pc = "earliest" /\ Acyclic(tasks) /\ Len(tasks) > 0)
        => /\ makespan = MaxOf({tasks[i].earliest_finish : i \in 1..Len(tasks)})
           /\ makespan = ForwardAN.makespan

\* C3: after both passes on an acyclic task set every task has EF = ES + duration
\* and LF = LS + duration, in either encoding
C3_FinishIsStartPlusDuration ==
    (pc = "latest" /\ Acyclic(tasks))
        => \A i \in 1..Len(tasks) :
               /\ tasks[i].earliest_finish = tasks[i].earliest_start + tasks[i].duration
               /\ tasks[i].latest_finish = tasks[i].latest_start + tasks[i].duration

\* C4: once build, forward pass and backward pass have all returned without an
\* error, no task has a negative slack
C4_SlackNonNegative ==
    (pc = "latest" /\ err = "none") => \A i \in 1..Len(tasks) : tasks[i].slack >= 0

\* the places of a schedule: <<m, k>> is entry k of the list of machine m - 1
Places(sch) == UNION {{<<m, k>> : k \in 1..Len(sch[m][2])} : m \in 1..Len(sch)}

\* the (task_id, start_time, end_time) at a place
EntryAt(sch, pl) == sch[pl[1]][2][pl[2]]

\* C6: with M >= 1 machines every scheduled task starts at or after its ES, and two
\* tasks on one machine never overlap
C6_ScheduleFeasible ==
    pc = "scheduled" =>
        \A a \in Places(schedule) :
            /\ HasTask(tasks, EntryAt(schedule, a)[1])
            /\ EntryAt(schedule, a)[2] >=
                   TaskOf(tasks, EntryAt(schedule, a)[1]).earliest_start
            /\ \A b \in Places(schedule) :
                   (a # b /\ a[1] = b[1]) =>
                       \/ EntryAt(schedule, a)[3] <= EntryAt(schedule, b)[2]
                       \/ EntryAt(schedule, b)[3] <= EntryAt(schedule, a)[2]

\* a schedule in which a machine runs two tasks and a task waits for a machine
C6_Witness ==
    /\ pc = "scheduled"
    /\ num_machines >= 1
    /\ \E a, b \in Places(schedule) : a # b /\ a[1] = b[1]
    /\ \E a \in Places(schedule) :
           /\ EntryAt(schedule, a)[2] >
                  TaskOf(tasks, EntryAt(schedule, a)[1]).earliest_start
           /\ EntryAt(schedule, a)[3] > EntryAt(schedule, a)[2]

\* C7: on a task set with a dependency cycle the propagation does not go on past
\* the forward pass: it fails with CyclicDependency
C7_CycleDetected ==
    (Cyclic(tasks) /\ pc \notin {"start", "load", "built"})
        => (pc = "failed" /\ err = "CyclicDependency")

\* C9: build_AN_network on a task set that names an unregistered predecessor
\* fails with UnknownPredecessor, and the graph gets no node that is not a task
C9_UnknownPredecessor ==
    (network_type = "AN" /\ ~PredsRegistered(tasks))
        => (pc = "failed" /\ err = "UnknownPredecessor" /\
            \A k \in 1..Len(graph) : HasTask(tasks, graph[k][1]))

\* the computed fields the example expects: ES, EF, LS, LF, slack
ExampleTimes ==
    [id \in {"A", "B", "C", "D"} |->
        CASE id = "A" -> <<0, 3, 0, 3, 0>>
          [] id = "B" -> <<3, 5, 5, 7, 2>>
          [] id = "C" -> <<3, 7, 3, 7, 0>>
          [] id = "D" -> <<7, 8, 7, 8, 0>>]

ExampleLoaded == TaskIdSet(tasks) = {"A", "B", "C", "D"}

\* the place of a task in a schedule
PlaceOf(sch, id) == CHOOSE pl \in Places(sch) : EntryAt(sch, pl)[1] = id

\* C5: the example A(3), B(2, A), C(4, A), D(1, B C) gives, in either encoding,
\* the ES/EF and makespan 8 after the forward pass, the LS/LF and slack after the
\* backward pass, the critical path A, C, D, and with two machines a schedule with
\* A on machine 0 at [0, 3], B and C on different machines from 3, D from 7
C5_Example ==
    ExampleLoaded =>
        /\ pc # "failed"
        /\ pc \in {"earliest", "latest", "critical", "scheduled"} =>
               /\ makespan = 8
               /\ \A i \in 1..Len(tasks) :
                      /\ tasks[i].earliest_start = ExampleTimes[tasks[i].task_id][1]
                      /\ tasks[i].earliest_finish = ExampleTimes[tasks[i].task_id][2]
        /\ pc \in {"latest", "critical", "scheduled"} =>
               \A i \in 1..Len(tasks) : Times(tasks[i]) = ExampleTimes[tasks[i].task_id]
        /\ pc \in {"critical", "scheduled"} => critical_path = <<"A", "C", "D">>
        /\ (pc = "scheduled" /\ num_machines = 2) =>
               /\ {EntryAt(schedule, pl)[1] : pl \in Places(schedule)}
                      = {"A", "B", "C", "D"}
               /\ Cardinality(Places(schedule)) = 4
               /\ schedule[1][1] = 0
               /\ schedule[1][2][1] = <<"A", 0, 3>>
               /\ EntryAt(schedule, PlaceOf(schedule, "B"))[2] = 3
               /\ EntryAt(schedule, PlaceOf(schedule, "C"))[2] = 3
               /\ PlaceOf(schedule, "B")[1] # PlaceOf(schedule, "C")[1]
               /\ EntryAt(schedule, PlaceOf(schedule, "D"))[2] = 7

\* the example scheduled on two machines from the AA encoding
C5_Witness ==
    ExampleLoaded /\ pc = "scheduled" /\ num_machines = 2 /\ network_type = "AA"

\* no id twice among the ids of a sequence
NoRepeat(q) == \A i, j \in 1..Len(q) : i # j => q[i] # q[j]

InPass == pc \in {"earliest_loop", "latest_loop"}

\* C8: in a pass no task or event node enters the queue twice (what has left it
\* and what is in it are distinct ids), and every pass that has begun comes to
\* the end of its while loop, whatever the task set
C8_PassesTerminate ==
    /\ [](InPass => NoRepeat(popped \o loop.queue))
    /\ (InPass ~> ~InPass)

\* both passes have run to their end on a task set with a dependency cycle
C8_Witness == pc = "latest" /\ Cyclic(tasks) /\ Len(tasks) = 3 /\ Len(popped) > 0

\* C10: add_task leaves the registry as it was when the id is already registered
\* (DuplicateTaskId), and stores no task with a negative duration
\* (NegativeDuration)
C10_AddTaskRejects ==
    [][(pc = "load" /\ pc' = "load") =>
           /\ \A i \in 1..Len(tasks) : i <= Len(tasks') /\ tasks'[i] = tasks[i]
           /\ \A i \in 1..Len(tasks') : tasks'[i].duration >= 0]_vars

\* C11: a build requested with no task registered fails with EmptyNetwork, and
\* no later stage is reached (no makespan is reported) for an empty task set
C11_EmptyNetwork ==
    (Len(tasks) = 0 /\ pc \notin {"start", "load"})
        => (pc = "failed" /\ err = "EmptyNetwork")

\* the parts of the object a build writes
Network == <<network_type, graph, arc_to_task, dummy_tasks>>

\* C13: a call that fails leaves network_type, graph, arc_to_task and
\* dummy_tasks as they were before the call
C13_NoPartialResult == [][pc' = "failed" => Network' = Network]_vars

\* the chains t1 -> ... -> tk of declared predecessors, as sequences of slots
Chains(ts) ==
    {c \in UNION {[1..k -> 1..Len(ts)] : k \in 1..Len(ts)} :
        \A j \in 1..(Len(c) - 1) :
            ts[c[j]].task_id \in Range(ts[c[j + 1]].predecessors)}

RECURSIVE SumDurations(_, _, _)
SumDurations(ts, c, j) ==
    IF j > Len(c) THEN 0 ELSE ts[c[j]].duration + SumDurations(ts, c, j + 1)

\* a chain of slack-0 tasks from a task without predecessors to a task without
\* successors
CriticalChain(ts, c) ==
    /\ \A j \in 1..Len(c) : ts[c[j]].slack = 0
    /\ ts[c[1]].predecessors = <<>>
    /\ ~has_successors(ts, ts[c[Len(c)]].task_id)

\* every task of the chain starts when the one before it finishes
Tight(ts, c) ==
    \A j \in 1..(Len(c) - 1) : ts[c[j]].earliest_finish = ts[c[j + 1]].earliest_start

\* C15 as stated: after both passes in AN on an acyclic task set, every chain of
\* slack-0 tasks from a task without predecessors to a task without successors
\* has durations that sum to the makespan
C15_CriticalChainSum ==
    (pc = "latest" /\ network_type = "AN" /\ Acyclic(tasks)) =>
        \A c \in Chains(tasks) :
            CriticalChain(tasks, c) => SumDurations(tasks, c, 1) = makespan

\* C15 amended: the same for the chains in which every task starts at the
\* earliest finish of the task before it
C15_TightChainSum ==
    (pc = "latest" /\ network_type = "AN" /\ Acyclic(tasks)) =>
        \A c \in Chains(tasks) :
            (CriticalChain(tasks, c) /\ Tight(tasks, c))
                => SumDurations(tasks, c, 1) = makespan

\* a chain of two critical tasks beside a task with slack
C15_Witness ==
    /\ pc = "latest" /\ network_type = "AN" /\ Acyclic(tasks)
    /\ \E c \in Chains(tasks) :
           /\ Len(c) = 2
           /\ CriticalChain(tasks, c)
           /\ Tight(tasks, c)
           /\ SumDurations(tasks, c, 1) = 2
    /\ \E i \in 1..Len(tasks) : tasks[i].slack > 0

\* C12: create_schedule with a machine count below 1 fails with
\* InvalidMachineCount and returns no schedule, whatever the task set
C12_InvalidMachineCount ==
    [][(pc = "critical" /\ num_machines < 1) =>
           (pc' = "failed" /\ err' = "InvalidMachineCount" /\ schedule' = schedule)]_vars

\* the ids of the tasks with slack 0
CriticalIds == {tasks[i].task_id : i \in {j \in 1..Len(tasks) : tasks[j].slack = 0}}

\* C14: find_critical_path returns exactly the tasks with slack 0, each once,
\* in ascending order of (ES, task id), whatever the order of registration
C14_CriticalPathOrder ==
    pc \in {"critical", "scheduled"} =>
        /\ Range(critical_path) = CriticalIds
        /\ Len(critical_path) = Cardinality(CriticalIds)
        /\ \A i, j \in 1..Len(critical_path) :
               i < j => ScheduleKeyLess(TaskOf(tasks, critical_path[i]),
                                        TaskOf(tasks, critical_path[j]))

\* C16: the two passes run again on a computed network leave ES, EF, LS, LF,
\* slack of every task and the makespan as the first run left them
C16_RecomputeSame ==
    [][pc' = "recomputed" => (tasks' = tasks /\ makespan' = makespan)]_vars

\* the passes have run twice on an AA network of two tasks, one after the other
C16_Witness ==
    /\ pc = "recomputed" /\ network_type = "AA" /\ Len(tasks) = 2
    /\ makespan = 2

\* the registry proper: ids, durations and predecessor lists
Registered == [i \in 1..Len(tasks) |-> <<tasks[i].task_id, tasks[i].duration,
                                         tasks[i].predecessors>>]

\* C17: once a build has run, add_task is rejected and the registry stays as it
\* was at build time
C17_RegistryFrozen ==
    [][pc \notin {"start", "load"} => Registered' = Registered]_vars

\* C18: on an object on which no build has run (network_type is None) the
\* passes fail: no state after a pass has network_type None unless it failed
C18_PassesNeedBuild ==
    network_type = "None" => pc \in {"start", "load", "failed"}

\* the fields the backward pass writes
LatestFields == [i \in 1..Len(tasks) |-> <<tasks[i].latest_start, tasks[i].latest_finish,
                                           tasks[i].slack>>]

\* C19: on a built network on which no forward pass has run,
\* calculate_latest_times does not return with LS, LF or slack written (from
\* the makespan 0)
C19_BackwardNeedsForward ==
    [][pc' = "latest_first" => LatestFields' = LatestFields]_vars

\* zad5: the edges of a graph as pairs u < v
EdgePairs(g) ==
    {e \in (0..(g.num_vertices - 1)) \X (0..(g.num_vertices - 1)) :
        e[1] < e[2] /\ g.adj_matrix[e[1]][e[2]] # 0}

\* the vertices the pairs of E join to the vertices of S
RECURSIVE Reach(_, _)
Reach(E, S) ==
    LET more == S \cup {e[2] : e \in {x \in E : x[1] \in S}}
                  \cup {e[1] : e \in {x \in E : x[2] \in S}}
    IN  IF more = S THEN S ELSE Reach(E, more)

\* the pairs of E join all of the vertices 0 .. n - 1
Spans(n, E) == n >= 1 /\ Reach(E, {0}) = 0..(n - 1)

RECURSIVE TreeWeight(_, _)
TreeWeight(g, E) ==
    IF E = {} THEN 0
    ELSE LET e == CHOOSE x \in E : TRUE
         IN  g.adj_matrix[e[1]][e[2]] + TreeWeight(g, E \ {e})

\* the spanning trees of g: n - 1 of its edges that join all vertices
SpanningTrees(g) ==
    {T \in SUBSET EdgePairs(g) :
        Cardinality(T) = g.num_vertices - 1 /\ Spans(g.num_vertices, T)}

\* the edges returned are n - 1 different edges of g, with their weights, that
\* join all vertices
ReturnsSpanningTree(g, mst_edges) ==
    /\ Len(mst_edges) = g.num_vertices - 1
    /\ \A k \in 1..Len(mst_edges) :
           /\ <<mst_edges[k][1], mst_edges[k][2]>> \in EdgePairs(g)
           /\ mst_edges[k][3] = g.adj_matrix[mst_edges[k][1]][mst_edges[k][2]]
    /\ {<<mst_edges[k][1], mst_edges[k][2]>> : k \in 1..Len(mst_edges)}
           \in SpanningTrees(g)

\* C20: on a connected undirected graph with non-zero integer weights, from
\* any start vertex, prim_mst and kruskal_mst each return n - 1 edges that form
\* a spanning tree, and both totals are the least weight of a spanning tree
C20_MinimumSpanningTree ==
    (zad5_pc = "kruskal" /\ Spans(zad5_graph.num_vertices, EdgePairs(zad5_graph))) =>
        /\ prim_result.err = "none" /\ kruskal_result.err = "none"
        /\ ReturnsSpanningTree(zad5_graph, prim_result.mst_edges)
        /\ ReturnsSpanningTree(zad5_graph, kruskal_result.mst_edges)
        /\ prim_result.total_weight = kruskal_result.total_weight
        /\ \A T \in SpanningTrees(zad5_graph) :
               kruskal_result.total_weight <= TreeWeight(zad5_graph, T)

\* four vertices, every pair an edge, a negative weight among them, and the
\* two algorithms return different trees
C20_Witness ==
    /\ zad5_pc = "kruskal"
    /\ zad5_graph.num_vertices = 4
    /\ Cardinality(EdgePairs(zad5_graph)) = 6
    /\ \E e \in EdgePairs(zad5_graph) : zad5_graph.adj_matrix[e[1]][e[2]] < 0
    /\ Range(prim_result.mst_edges) # Range(kruskal_result.mst_edges)
    /\ kruskal_result.total_weight = 1

\* C23: in a schedule for M >= 1 machines on an acyclic task set, every task
\* starts at or after the scheduled end of each of its predecessors
C23_PredecessorsFinishFirst ==
    (pc = "scheduled" /\ num_machines >= 1 /\ Acyclic(tasks)) =>
        \A i \in 1..Len(tasks) :
            \A p \in Range(tasks[i].predecessors) :
                EntryAt(schedule, PlaceOf(schedule, tasks[i].task_id))[2] >=
                    EntryAt(schedule, PlaceOf(schedule, p))[3]

\* the entries of machine m - 1 that were placed before task t was processed,
\* as indices of its list
PlacedBefore(sch, m, t) ==
    {k \in 1..Len(sch[m][2]) :
        ScheduleKeyLess(TaskOf(tasks, sch[m][2][k][1]), t)}

\* the time machine m - 1 is free from when task t is processed: the end of the
\* last entry placed on it before, 0 when there is none
FreeTime(sch, m, t) ==
    IF PlacedBefore(sch, m, t) = {} THEN 0
    ELSE sch[m][2][MaxOf(PlacedBefore(sch, m, t))][3]

\* C24: the tasks are processed in ascending (ES, task_id) order; each is placed
\* exactly once, on the machine of the smallest max(ES, machine free time), the
\* lowest index on ties, from that time to that time plus its duration, and the
\* entries of each machine are in non-decreasing order of start
C24_GreedyAssignment ==
    (pc = "scheduled" /\ num_machines >= 1) =>
        /\ \A i \in 1..Len(tasks) :
               Cardinality({pl \in Places(schedule) :
                               EntryAt(schedule, pl)[1] = tasks[i].task_id}) = 1
        /\ \A pl \in Places(schedule) :
               LET e == EntryAt(schedule, pl)
                   t == TaskOf(tasks, e[1])
                   cand == [m \in 1..Len(schedule) |->
                               Max2(t.earliest_start, FreeTime(schedule, m, t))]
               IN  /\ PlacedBefore(schedule, pl[1], t) = 1..(pl[2] - 1)
                   /\ e[2] = cand[pl[1]]
                   /\ \A m \in 1..Len(schedule) : cand[m] >= e[2]
                   /\ \A m \in 1..(pl[1] - 1) : cand[m] > e[2]
                   /\ e[3] = e[2] + t.duration
                   /\ pl[2] > 1 => schedule[pl[1]][2][pl[2] - 1][2] <= e[2]

\* two machines, three tasks of duration 1 with ES 0: the third finds both
\* machines free from 1 and goes to machine 0
C24_Witness ==
    /\ pc = "scheduled"
    /\ num_machines = 2
    /\ Len(tasks) = 3
    /\ \A i \in 1..3 : tasks[i].earliest_start = 0 /\ tasks[i].duration = 1
    /\ Len(schedule[1][2]) = 2
    /\ Len(schedule[2][2]) = 1
    /\ schedule[1][2][2] = <<"C", 1, 2>>

\* C25: after build_AA_network on a valid task set, arc_to_task maps exactly one
\* event pair to each task id (so no two tasks share a pair)
C25_OneArcPerTask ==
    (network_type = "AA" /\ pc = "built" /\ Acyclic(tasks)) =>
        \A i \in 1..Len(tasks) :
            Cardinality({k \in 1..Len(arc_to_task) :
                            arc_to_task[k][2] = tasks[i].task_id}) = 1

\* the event nodes of the AA network
EventNodes == {graph[k][1] : k \in 1..Len(graph)}

\* the entries of arc_to_task that are dummy arcs
DummyArcs == {k \in 1..Len(arc_to_task) : arc_to_task[k][2] \in Range(dummy_tasks)}

\* how often node v is in the adjacency list of node u
ArcCount(u, v) ==
    Cardinality({j \in 1..Len(Get(graph, u)) : Get(graph, u)[j] = v})

\* one arc in the graph for each dummy arc, and one id of its own in dummy_tasks
DummyArcsOnce ==
    /\ \A k \in DummyArcs : ArcCount(arc_to_task[k][1][1], arc_to_task[k][1][2]) = 1
    /\ \A k, j \in DummyArcs : k # j => arc_to_task[k][2] # arc_to_task[j][2]
    /\ NoRepeat(dummy_tasks)
    /\ Cardinality(DummyArcs) = Len(dummy_tasks)

\* the ids a build allocates: the event nodes, the event pair of each arc, the
\* dummy ids
AllocatedIds == <<EventNodes, arc_to_task, dummy_tasks>>

\* C26: after build_AA_network there is one dummy arc at most between two event
\* nodes, each with a dummy id of its own in dummy_tasks, and a build of the same
\* task set, again on the same object or on a fresh one, allocates the same
\* event node ids and dummy ids
C26_DummyArcs ==
    [][(network_type' = "AA" /\ pc' \in {"built", "rebuilt"}) =>
           /\ DummyArcsOnce'
           /\ pc' = "rebuilt" => AllocatedIds' = AllocatedIds
           /\ \A reversed \in BOOLEAN :
                  LET fresh == build_AA_network(
                                   [NewTaskNetwork EXCEPT !.tasks = tasks'], reversed)
                  IN  /\ {fresh.graph[k][1] : k \in 1..Len(fresh.graph)} = EventNodes'
                      /\ fresh.arc_to_task = arc_to_task'
                      /\ fresh.dummy_tasks = dummy_tasks']_vars

\* built twice: two tasks that name each other, one of them twice, with a dummy
\* arc each way
C26_Witness ==
    /\ pc = "rebuilt"
    /\ Len(dummy_tasks) = 2
    /\ \E i \in 1..Len(tasks) :
           Len(tasks[i].predecessors) = 2
           /\ tasks[i].predecessors[1] = tasks[i].predecessors[2]

\* the fields the forward pass writes
EarliestFields == [i \in 1..Len(tasks) |-> <<tasks[i].earliest_start,
                                             tasks[i].earliest_finish>>]

\* the fields of the object no pass writes: the registry and what the build made
Built == <<Registered, num_machines, Network>>

\* C27: calculate_earliest_times leaves LS, LF, slack, the task set and the graph
\* as they were; calculate_latest_times leaves ES, EF, makespan, the task set
\* and the graph as they were; find_critical_path and create_schedule leave
\* every field as it was
C27_FrameOfThePasses ==
    [][/\ ((pc = "built" /\ pc' \in {"earliest", "failed"}) \/ pc' = "earliest_again")
           => (LatestFields' = LatestFields /\ Built' = Built)
       /\ (pc = "earliest" /\ pc' \in {"latest", "failed"})
           => (EarliestFields' = EarliestFields /\ makespan' = makespan
               /\ Built' = Built)
       /\ (pc' = "critical" \/ pc = "critical")
           => (EarliestFields' = EarliestFields /\ makespan' = makespan
               /\ LatestFields' = LatestFields /\ Built' = Built)]_vars

\* the forward pass has run again on a network with a task of positive slack
\* and late start, and written an ES, an EF and the makespan
C27_Witness ==
    /\ pc = "earliest_again"
    /\ makespan > 0
    /\ \E i \in 1..Len(tasks) : tasks[i].slack > 0 /\ tasks[i].latest_start > 0
    /\ \E i \in 1..Len(tasks) : tasks[i].earliest_start > 0

\* C21: on every graph built with add_edge, directed or not, with any u and v
\* in range, has_c3_matrix returns what has_c3_naive returns
C21_MatrixAgreesWithNaive ==
    (zad4_pc = "done" /\ zad4_graph.num_vertices >= 1) =>
        /\ c3_result.has_c3_matrix.err = "none"
        /\ c3_result.has_c3_matrix.value = c3_result.has_c3_naive

\* C22: on every graph built with add_edge, directed or not, count_c3_matrix is
\* the number of C_3 cycles: the length of find_all_c3_naive and of
\* find_all_c3_matrix_assisted
C22_CountIsNumberOfCycles ==
    (zad4_pc = "done" /\ zad4_graph.num_vertices >= 1) =>
        /\ c3_result.count_c3_matrix.err = "none"
        /\ c3_result.count_c3_matrix.value = Len(c3_result.find_all_c3_naive)
        /\ c3_result.count_c3_matrix.value = Len(c3_result.find_all_c3_matrix_assisted)

\* C29: after any sequence of add_edge, remove_edge, add_node and remove_node
\* with arguments in range the matrix has n rows of n entries each
C29_MatrixIsSquare ==
    /\ Len(zad1_graph.matrix) = zad1_graph.n
    /\ \A i \in 1..Len(zad1_graph.matrix) : Len(zad1_graph.matrix[i]) = zad1_graph.n

\* C28: every call of edmonds_karp with source and sink in range returns, the
\* call with source = sink included
C28_EdmondsKarpReturns == (zad2_pc = "bfs") ~> (zad2_pc = "returned")

\* the flow out of node u less the flow into it, as the flow matrix has it
RECURSIVE NetOut(_, _, _)
NetOut(net, u, v) == IF v < 0 THEN 0 ELSE NetOut(net, u, v - 1) + net.flow[u][v]

\* a valid flow between source and sink
FlowValid(net, source, sink) ==
    /\ \A u, v \in 0..(net.n - 1) :
           /\ net.flow[u][v] <= net.capacity[u][v]
           /\ net.flow[u][v] = -net.flow[v][u]
    /\ \A u \in (0..(net.n - 1)) \ {source, sink} : NetOut(net, u, net.n - 1) = 0

\* C30: in edmonds_karp with source # sink and capacities >= 0, before and
\* after every augmentation the flow is within the capacities, skew symmetric
\* and conserved at every node but source and sink, and max_flow, which is
\* returned, is the net flow out of the source
C30_FlowValid ==
    (zad2_pc \in {"bfs", "augment", "returned"} /\ zad2_ends[1] # zad2_ends[2]) =>
        /\ FlowValid(zad2_network, zad2_ends[1], zad2_ends[2])
        /\ max_flow = NetOut(zad2_network, zad2_ends[1], zad2_network.n - 1)

\* returned with flow 2 after augmentations the last of which went along an arc
\* of capacity 0, taking back flow sent the other way before
C30_Witness ==
    /\ zad2_pc = "returned"
    /\ zad2_ends[1] # zad2_ends[2]
    /\ max_flow = 2
    /\ \E k \in 1..Len(zad2_path) :
           /\ zad2_network.capacity[zad2_path[k][1]][zad2_path[k][2]] = 0
           /\ zad2_network.capacity[zad2_path[k][2]][zad2_path[k][1]] > 0

=============================================================================
